---- MODULE Spec2Model ----
(***************************************************************************)
(* Model of the toy-iris Angular console: the upload/download task polling *)
(* engine of UploadService (Spec, and SpecLive with every request answered *)
(* and every timer firing), the upload validation helpers (SpecValid), the *)
(* dependency check (SpecDeps), the upload view (SpecView), the data       *)
(* services' error handling (SpecSvc), the theme and sidebar stores        *)
(* (SpecStores), the notification store (SpecNotif), the NOOS analytics    *)
(* view (SpecRuns), the main layout (SpecLayout) and the algorithm         *)
(* parameters view (SpecParams).                                           *)
(***************************************************************************)
EXTENDS Integers, Sequences, FiniteSets, TLC

(***************************************************************************)
(* Program constants                                                       *)
(***************************************************************************)
uploadMaxPolls == 240
downloadMaxPolls == 120
uploadDelay == 2000
uploadRetryDelay == 2000
downloadDelay == 5000
downloadRetryDelay == 5000
defaultMaxSizeMB == 50
MiB == 1024 * 1024

(***************************************************************************)
(* Bounds of the model                                                     *)
(***************************************************************************)
MaxNameLen == 5

(***************************************************************************)
(* Values                                                                  *)
(***************************************************************************)
Absent == -1                    \* an optional numeric field that is not set
NoMsg == <<>>                   \* an optional string field that is not set
NoFile == [name |-> <<>>, size |-> Absent]      \* file === null / undefined
NoStatus == "undefined"         \* task.status missing from the response

Flows == {"upload", "download"}
Statuses == {"PENDING", "RUNNING", "COMPLETED", "FAILED", "CANCELLED",
             "PAUSED", NoStatus}
Pcts == {Absent, 40}
ErrorMessages == {NoMsg, <<"bad header">>}
Task(s, p, m) == [status |-> s, progressPercentage |-> p, errorMessage |-> m]
\* The task objects a response can carry: a progress percentage on a task in
\* progress, an error message on a failed one.
Tasks ==
    {Task(s, p, NoMsg) : s \in {"PENDING", "RUNNING"}, p \in Pcts}
    \cup {Task("FAILED", Absent, m) : m \in ErrorMessages}
    \cup {Task(s, Absent, NoMsg) : s \in Statuses \ {"PENDING", "RUNNING", "FAILED"}}
NoTask == Task("none", Absent, NoMsg)     \* the step handled no response
ErrTask == Task("ERR", Absent, NoMsg)     \* the step handled a failed request

VARIABLES
    flow,            \* the operation subscribed: "none", "upload", "download", "sync"
    phase,           \* "idle", "submitting", "polling", "waiting", "blob", "done"
    hasFile,         \* the file argument of the upload call was present
    inflight,        \* the file carried by the upload POST in flight (NoFile when none)
    pollCount,       \* pollCount argument of the current poll call
    timer,           \* delay (ms) of the pending setTimeout, 0 when none is pending
    uploadRequests,  \* POST /file/upload/{type}/async requests issued
    syncRequests,    \* POST /file/upload/{type} requests issued
    statusRequests,  \* GET /tasks/{id} requests issued
    blobRequests,    \* GET /tasks/{id}/result requests issued
    nextCalls,       \* observer.next calls made so far
    terminalCalls,   \* observer.complete / observer.error calls made so far
    lastTask,        \* the response the most recent step handled (NoTask, ErrTask)
    lastCalls,       \* the observer calls made by the most recent step
    unsubscribed,    \* the subscriber has unsubscribed from the sequence
    progressAnswers, \* status checks the server answered PENDING or RUNNING
    failedChecks,    \* status checks that failed (transport or server error)
    vFile,           \* validation helpers: the file argument
    vMaxSizeMB,      \* validation helpers: the maxSizeMB argument (Absent: omitted)
    vType,           \* result of isValidFileType(vFile), <<>> before the call
    vSize,           \* result of isValidFileSize(vFile, vMaxSizeMB), <<>> before the call
    dFileType,       \* dependency check: the fileType argument
    dStatusData,     \* dependency check: the statusData argument
    dStatusBefore,   \* dependency check: statusData as it was when the call began
    dResult,         \* result of checkUploadDependencies, <<>> before the call
    uploadFiles,     \* upload view: status and canUpload of each file type
    lastSnapshot,    \* upload view: <<snapshot>> applied last, <<>> before the first
    showUploadModal, \* upload view: the upload modal is open
    selectedFileType,\* upload view: file type picked for the modal, "" when none
    selectedFile,    \* upload view: file picked in the modal, NoFile when none
    statusOpen,      \* upload view: GET /file/status requests not yet answered
    clearOpen,       \* upload view: DELETE clear-all requests not yet answered
    activeUploads,   \* upload view: per file type, upload sequences subscribed
                     \* that have not delivered their terminal event
    submitted,       \* upload view: file type submitted by the most recent step
    errorBefore,     \* upload view: the file types that were in 'error' when the
                     \* most recent step, if a status refresh, began
    svcCall,         \* data services: the call subscribed, NoCall before
    svcPending,      \* data services: its HTTP request has not been answered
    svcBody,         \* data services: error.error of the failed request, "" when none
    svcOutcome,      \* data services: what the subscriber got: "none", "response",
                     \* "fallback" (next with the of(...) value), "error"
    themeMode,       \* theme store: _themeMode
    systemPrefersDark, \* theme store: _systemPrefersDark
    themeState,      \* theme store: value of themeStateSubject
    dataTheme,       \* the data-theme attribute of the document
    themeStorage,    \* localStorage item 'toyiris-theme': <<>> or <<text>>
    themeFresh,      \* the theme store was constructed by the most recent theme step
    lastSet,         \* <<mode>> passed to setTheme last, <<>> when never
    lastSetSaved,    \* localStorage accepted the write of that setTheme
    collapsed,       \* sidebar store: value of collapsedSubject
    sidebarStorage,  \* localStorage item 'sidebarCollapsed': <<>> or <<text>>
    sidebarLast,     \* sidebar store: "construct", "set", "toggle", or "toggle2"
                     \* (a toggle right after a toggle)
    sidebarMark,     \* <<collapsed, sidebarStorage>> before the first of the
                     \* consecutive toggles
    notifications,   \* notification store: value of notificationsSubject
    notificationId,  \* notification store: counter of generateId
    notifOpen,       \* notification store: HTTP requests not yet answered
    notifLast,       \* notification store: the most recent step: its operation,
                     \* how the server answered, and the list before the step
    reportData,      \* analytics view: ids of the runs listed, in display order
    serverRuns,      \* ids of the NOOS runs the server holds
    runsOpen,        \* analytics view: requests not yet answered
    runsLast,        \* analytics view: the most recent step: its operation, the
                     \* run it was about, and reportData before it
    sidebarCollapsed,\* layout: MainLayoutComponent.sidebarCollapsed
    sidebarOpen,     \* layout: MainLayoutComponent.sidebarOpen
    width,           \* window width: "handset" (matches Breakpoints.Handset),
                     \* "tablet" (wider, up to 1024 px) or "desktop" (above 1024 px)
    selectedParameterSet, \* AlgorithmParametersComponent.selectedParameterSet
    parametersForm,  \* value of the parameters form: set name and the eight values
    isAutoSaving,    \* AlgorithmParametersComponent.isAutoSaving
    isSavingAsNew,   \* AlgorithmParametersComponent.isSavingAsNew
    isSaving,        \* AlgorithmParametersComponent.isSaving
    showSaveAsModal, \* AlgorithmParametersComponent.showSaveAsModal
    debouncing,      \* debounceTime(2000) holds a value of valueChanges
    lastDistinct,    \* the value distinctUntilChanged let through last (<<>> none)
    paramsOpen,      \* parameter requests in flight
    failedSince      \* sets whose activation failed with no edit of the form since

engineVars == <<flow, phase, hasFile, inflight, pollCount, timer, uploadRequests,
                syncRequests, statusRequests, blobRequests, nextCalls,
                terminalCalls, lastTask, lastCalls, unsubscribed>>

historyVars == <<progressAnswers, failedChecks>>

validVars == <<vFile, vMaxSizeMB, vType, vSize>>

depVars == <<dFileType, dStatusData, dStatusBefore, dResult>>

\* the state of the parts modelled after the validation helpers
viewVars == <<uploadFiles, lastSnapshot, showUploadModal, selectedFileType,
              selectedFile, statusOpen, clearOpen, activeUploads, submitted,
              errorBefore>>

svcVars == <<svcCall, svcPending, svcBody, svcOutcome>>

themeVars == <<themeMode, systemPrefersDark, themeState, dataTheme, themeStorage,
               themeFresh, lastSet, lastSetSaved>>

sidebarVars == <<collapsed, sidebarStorage, sidebarLast, sidebarMark>>

notifVars == <<notifications, notificationId, notifOpen, notifLast>>

\* the notification store and the page components
runsVars == <<reportData, serverRuns, runsOpen, runsLast>>

layoutVars == <<sidebarCollapsed, sidebarOpen, width>>

paramsVars == <<selectedParameterSet, parametersForm, isAutoSaving, isSavingAsNew,
                isSaving, showSaveAsModal, debouncing, lastDistinct, paramsOpen,
                failedSince>>

pageVars == <<notifVars, runsVars, layoutVars, paramsVars>>

laterVars == <<depVars, viewVars, svcVars, themeVars, sidebarVars, pageVars>>

\* what the polling engine leaves alone
otherVars == <<validVars, laterVars>>

vars == <<engineVars, historyVars, otherVars>>

(***************************************************************************)
(* Each part of the program before any of its operations has run; a        *)
(* specification of one part holds the other parts in this state.          *)
(***************************************************************************)
DepsIdle ==
    /\ dFileType = ""
    /\ dStatusData = <<>>
    /\ dStatusBefore = <<>>
    /\ dResult = <<>>

\* the upload view before ngOnInit
ViewIdle ==
    /\ uploadFiles = [id \in {"styles", "stores", "skus", "sales"} |->
                        [status |-> "pending", canUpload |-> TRUE]]
    /\ lastSnapshot = <<>>
    /\ showUploadModal = FALSE
    /\ selectedFileType = ""
    /\ selectedFile = NoFile
    /\ statusOpen = 0
    /\ clearOpen = 0
    /\ activeUploads = [id \in {"styles", "stores", "skus", "sales"} |-> 0]
    /\ submitted = ""
    /\ errorBefore = {}

NoCall == [name |-> "", method |-> "", onError |-> ""]

SvcIdle ==
    /\ svcCall = NoCall
    /\ svcPending = FALSE
    /\ svcBody = ""
    /\ svcOutcome = "none"

\* the theme and sidebar stores constructed over an empty localStorage in a
\* light system
ThemeIdle ==
    /\ themeMode = "system"
    /\ systemPrefersDark = FALSE
    /\ themeState = [mode |-> "system", isDark |-> FALSE, systemPrefersDark |-> FALSE]
    /\ dataTheme = "light"
    /\ themeStorage = <<>>
    /\ themeFresh = TRUE
    /\ lastSet = <<>>
    /\ lastSetSaved = FALSE

StoresIdle ==
    /\ ThemeIdle
    /\ collapsed = FALSE
    /\ sidebarStorage = <<>>
    /\ sidebarLast = "construct"
    /\ sidebarMark = <<FALSE, <<>>>>

\* the notification store constructed: the constructor's loadNotifications
\* request is in flight
NotifIdle ==
    /\ notifications = <<>>
    /\ notificationId = 0
    /\ notifOpen = {[op |-> "load", id |-> <<>>]}
    /\ notifLast = [op |-> "construct", ok |-> TRUE, id |-> <<>>, before |-> <<>>]

\* the analytics view after ngOnInit: the first report request is in flight
RunsIdle ==
    /\ reportData = <<>>
    /\ serverRuns = {1, 2, 3}
    /\ runsOpen = {[op |-> "load", id |-> 0, index |-> 0]}
    /\ runsLast = [op |-> "ngOnInit", id |-> 0, before |-> <<>>]

\* the layout after ngOnInit in a desktop window, nothing stored
LayoutIdle ==
    /\ sidebarCollapsed = FALSE
    /\ sidebarOpen = FALSE
    /\ width = "desktop"

\* the parameters view after ngOnInit: the form holds createForm's defaults and
\* the request for the default parameters is in flight
ParamsIdle ==
    /\ selectedParameterSet = "default"
    /\ parametersForm = [parameterSetName |-> "default", values |-> "defaults"]
    /\ isAutoSaving = FALSE
    /\ isSavingAsNew = FALSE
    /\ isSaving = FALSE
    /\ showSaveAsModal = FALSE
    /\ debouncing = FALSE
    /\ lastDistinct = <<>>
    /\ paramsOpen = {[op |-> "default", set |-> "default", values |-> "", tag |-> 1]}
    /\ failedSince = {}

PagesIdle ==
    /\ NotifIdle
    /\ RunsIdle
    /\ LayoutIdle
    /\ ParamsIdle

LaterIdle ==
    /\ DepsIdle
    /\ ViewIdle
    /\ SvcIdle
    /\ StoresIdle
    /\ PagesIdle

(***************************************************************************)
(* Observer calls                                                          *)
(***************************************************************************)
NextEvent(progress, task, completed, blob) ==
    [op |-> "next", progress |-> progress, task |-> task,
     completed |-> completed, blob |-> blob]
Complete == [op |-> "complete"]
Error(msg, task) == [op |-> "error", msg |-> msg, task |-> task]

NumOps(calls, ops) == Cardinality({i \in DOMAIN calls : calls[i].op \in ops})

\* x || d of the source: d when x is absent (or falsy)
OrZeroKeepsAbsent(x) == x

OrZero(x) == IF x = Absent THEN 0 ELSE x
OrDefault(m, d) == IF m = NoMsg THEN d ELSE m

NoFileMsg == <<"No file provided for upload">>
HttpErrorMsg == <<"Error Code">>
FailedMsg(f) == IF f = "upload" THEN <<"Upload failed">> ELSE <<"Download failed">>
CancelledMsg(f) ==
    IF f = "upload" THEN <<"Upload was cancelled">> ELSE <<"Download was cancelled">>
TimeoutMsg(f) ==
    IF f = "upload" THEN <<"Upload timeout - task is taking too long">>
    ELSE <<"Download timeout - task is taking too long">>
UnknownMsg(s) == <<"Unknown task status: ", s>>

MaxPolls(f) == IF f = "upload" THEN uploadMaxPolls ELSE downloadMaxPolls
\* setTimeout delay of the PENDING / RUNNING branch
Delay(f) == IF f = "upload" THEN uploadDelay ELSE downloadDelay
\* setTimeout delay of the error branch of the status check
RetryDelay(f) == IF f = "upload" THEN uploadRetryDelay ELSE downloadRetryDelay

(***************************************************************************)
(* Upload validation helpers (pure functions of UploadService).            *)
(* A file name is a sequence of UTF-16 code units, each a one-unit string. *)
(***************************************************************************)
\* String.prototype.toLowerCase on one code unit; U+0130 (capital I with dot
\* above, written "I_dot") lower-cases to the two units "i", U+0307.
LowerOf(c) ==
    CASE c = "T" -> <<"t">>
      [] c = "S" -> <<"s">>
      [] c = "V" -> <<"v">>
      [] c = "X" -> <<"x">>
      [] c = "I_dot" -> <<"i", "dot_above">>
      [] OTHER -> <<c>>

RECURSIVE toLowerCase(_)
toLowerCase(name) ==
    IF name = <<>> THEN <<>>
    ELSE LowerOf(Head(name)) \o toLowerCase(Tail(name))

\* String.prototype.lastIndexOf: 0-based index of the last c, -1 when none
lastIndexOf(name, c) ==
    LET hits == {i \in DOMAIN name : name[i] = c}
    IN IF hits = {} THEN 0 - 1
       ELSE (CHOOSE i \in hits : \A j \in hits : j <= i) - 1

\* String.prototype.substring(start): a negative start counts as 0, a start
\* past the end as the length
substring(str, start) ==
    LET from == IF start < 0 THEN 0
                ELSE IF start > Len(str) THEN Len(str) ELSE start
    IN SubSeq(str, from + 1, Len(str))

validTypes == {<<".", "t", "s", "v">>, <<".", "t", "x", "t">>}

isValidFileType(file) ==
    LET fileExtension ==
            substring(toLowerCase(file.name), lastIndexOf(file.name, "."))
    IN fileExtension \in validTypes

\* maxSizeMB: number = 50 (the default applies when the argument is omitted)
isValidFileSize(file, maxSizeMB) ==
    LET mb == IF maxSizeMB = Absent THEN defaultMaxSizeMB ELSE maxSizeMB
        maxSizeBytes == mb * MiB
    IN file.size <= maxSizeBytes

(***************************************************************************)
(* Files used as inputs of the upload operations                           *)
(***************************************************************************)
DataTsv == <<"d", "a", "t", "a", ".", "t", "s", "v">>
DataCsv == <<"d", "a", "t", "a", ".", "c", "s", "v">>
SubmitFiles ==
    { NoFile,
      [name |-> DataTsv, size |-> 10 * MiB],
      [name |-> DataCsv, size |-> 10 * MiB],
      [name |-> DataTsv, size |-> 51 * MiB] }

(***************************************************************************)
(* The polling engine: uploadFileAsync / pollUploadTaskStatus and          *)
(* downloadDataFileAsync / pollTaskStatus.                                 *)
(***************************************************************************)
Init ==
    /\ flow = "none"
    /\ phase = "idle"
    /\ hasFile = FALSE
    /\ inflight = NoFile
    /\ pollCount = 0
    /\ timer = 0
    /\ uploadRequests = 0
    /\ syncRequests = 0
    /\ statusRequests = 0
    /\ blobRequests = 0
    /\ nextCalls = 0
    /\ terminalCalls = 0
    /\ lastTask = NoTask
    /\ lastCalls = <<>>
    /\ unsubscribed = FALSE
    /\ progressAnswers = 0
    /\ failedChecks = 0
    /\ vFile = NoFile
    /\ vMaxSizeMB = Absent
    /\ vType = <<>>
    /\ vSize = <<>>
    /\ LaterIdle

\* the observer calls of one step
Emit(calls) ==
    /\ lastCalls' = calls
    /\ nextCalls' = nextCalls + NumOps(calls, {"next"})
    /\ terminalCalls' = terminalCalls + NumOps(calls, {"complete", "error"})

CeilingReachedLate(f, n) == n > MaxPolls(f)

CeilingReached(f, n) == n >= MaxPolls(f)

\* entry of pollUploadTaskStatus / pollTaskStatus with pollCount = n
Poll(f, n) ==
    /\ pollCount' = n
    /\ timer' = 0
    /\ IF CeilingReached(f, n)
       THEN /\ Emit(<<Error(TimeoutMsg(f), FALSE)>>)
            /\ phase' = "done"
            /\ UNCHANGED statusRequests
       ELSE /\ Emit(<<>>)
            /\ phase' = "polling"
            /\ statusRequests' = statusRequests + 1

\* the file check of startUploadTask and uploadFileSync
FilePresentAlways(file) == TRUE

FilePresent(file) == file # NoFile

\* startUploadTask(fileType, file) subscribed by uploadFileAsync
StartUploadTask(file) ==
    /\ flow' = "upload"
    /\ hasFile' = (file # NoFile)
    /\ lastTask' = NoTask
    /\ IF ~FilePresent(file)
       THEN /\ Emit(<<Error(NoFileMsg, FALSE)>>)
            /\ phase' = "done"
            /\ UNCHANGED <<inflight, uploadRequests>>
       ELSE /\ Emit(<<>>)
            /\ phase' = "submitting"
            /\ inflight' = file
            /\ uploadRequests' = uploadRequests + 1
    /\ UNCHANGED <<pollCount, timer, syncRequests, statusRequests, blobRequests,
                   unsubscribed>>
    /\ UNCHANGED <<historyVars, otherVars>>

\* a caller subscribes to uploadFileAsync(fileType, file)
UploadFileAsync(file) ==
    /\ phase = "idle"
    /\ StartUploadTask(file)

\* UploadComponent.uploadFile with the file and file type picked in the modal
UploadFile(fileToUpload, fileTypeToUpload) ==
    /\ phase = "idle"
    /\ IF fileToUpload = NoFile \/ fileTypeToUpload = ""
       THEN UNCHANGED vars
       ELSE IF ~isValidFileType(fileToUpload)
       THEN UNCHANGED vars
       ELSE IF ~isValidFileSize(fileToUpload, Absent)
       THEN UNCHANGED vars
       ELSE StartUploadTask(fileToUpload)

\* a caller subscribes to uploadFileSync(fileType, file)
UploadFileSync(file) ==
    /\ phase = "idle"
    /\ flow' = "sync"
    /\ hasFile' = (file # NoFile)
    /\ lastTask' = NoTask
    /\ IF ~FilePresent(file)
       THEN /\ Emit(<<Error(NoFileMsg, FALSE)>>)
            /\ phase' = "done"
            /\ UNCHANGED <<inflight, syncRequests>>
       ELSE /\ Emit(<<>>)
            /\ phase' = "submitting"
            /\ inflight' = file
            /\ syncRequests' = syncRequests + 1
    /\ UNCHANGED <<pollCount, timer, uploadRequests, statusRequests, blobRequests,
                   unsubscribed>>
    /\ UNCHANGED <<historyVars, otherVars>>

\* a caller subscribes to downloadDataFileAsync(fileType)
DownloadDataFileAsync ==
    /\ phase = "idle"
    /\ flow' = "download"
    /\ phase' = "submitting"
    /\ lastTask' = NoTask
    /\ Emit(<<>>)
    /\ UNCHANGED <<hasFile, inflight, pollCount, timer, uploadRequests,
                   syncRequests, statusRequests, blobRequests, unsubscribed>>
    /\ UNCHANGED <<historyVars, otherVars>>

\* the submission check of uploadFileAsync / downloadDataFileAsync
SubmitFailsNever(task) == FALSE

SubmitFails(task) == task.status = "FAILED"

\* next handler of the submission: the POST answered with a task
SubmitResponse(task) ==
    /\ phase = "submitting"
    /\ flow \in Flows
    /\ inflight' = NoFile
    /\ lastTask' = task
    /\ IF SubmitFails(task)
       THEN /\ Emit(<<Error(OrDefault(task.errorMessage, FailedMsg(flow)), FALSE)>>)
            /\ phase' = "done"
            /\ UNCHANGED <<pollCount, timer, statusRequests>>
       ELSE Poll(flow, 0)
    /\ UNCHANGED <<flow, hasFile, uploadRequests, syncRequests, blobRequests,
                   unsubscribed>>
    /\ UNCHANGED <<historyVars, otherVars>>

\* the sync upload POST answered
SyncResponse ==
    /\ phase = "submitting"
    /\ flow = "sync"
    /\ inflight' = NoFile
    /\ phase' = "done"
    /\ Emit(<<[op |-> "next", response |-> TRUE], Complete>>)
    /\ UNCHANGED <<flow, hasFile, pollCount, timer, uploadRequests, syncRequests,
                   statusRequests, blobRequests, lastTask, unsubscribed>>
    /\ UNCHANGED <<historyVars, otherVars>>

\* error handler of the submission: handleError rethrows, the sequence fails
SubmitError ==
    /\ phase = "submitting"
    /\ inflight' = NoFile
    /\ phase' = "done"
    /\ lastTask' = ErrTask
    /\ Emit(<<Error(HttpErrorMsg, FALSE)>>)
    /\ UNCHANGED <<flow, hasFile, pollCount, timer, uploadRequests, syncRequests,
                   statusRequests, blobRequests, unsubscribed>>
    /\ UNCHANGED <<historyVars, otherVars>>

\* next handler of the status check in pollUploadTaskStatus: the observer
\* calls it makes and what it does next ("done", "continue")
UploadOutcome(task) ==
    IF task.status = "COMPLETED"
    THEN [calls |-> <<NextEvent(100, TRUE, TRUE, FALSE), Complete>>, next |-> "done"]
    ELSE IF task.status = "FAILED"
    THEN [calls |-> <<Error(OrDefault(task.errorMessage, FailedMsg("upload")), TRUE)>>,
          next |-> "done"]
    ELSE IF task.status = "CANCELLED"
    THEN [calls |-> <<Error(CancelledMsg("upload"), FALSE)>>, next |-> "done"]
    ELSE IF task.status = "PENDING" \/ task.status = "RUNNING"
    THEN [calls |-> <<NextEvent(OrZero(task.progressPercentage), TRUE, FALSE, FALSE)>>,
          next |-> "continue"]
    ELSE [calls |-> <<Error(UnknownMsg(task.status), FALSE)>>, next |-> "done"]

\* pollTaskStatus emitting the 100% event before the result is fetched
DownloadOutcomeEmitsEarly(task) ==
    IF task.status = "COMPLETED"
    THEN [calls |-> <<NextEvent(100, FALSE, FALSE, FALSE)>>, next |-> "blob"]
    ELSE IF task.status = "PENDING" \/ task.status = "RUNNING"
    THEN [calls |-> <<NextEvent(OrZero(task.progressPercentage), FALSE, FALSE, FALSE)>>,
          next |-> "continue"]
    ELSE [calls |-> <<Error(UnknownMsg(task.status), FALSE)>>, next |-> "done"]

\* next handler of the status check in pollTaskStatus ("blob": the result
\* is requested)
DownloadOutcome(task) ==
    IF task.status = "COMPLETED"
    THEN [calls |-> <<>>, next |-> "blob"]
    ELSE IF task.status = "FAILED"
    THEN [calls |-> <<Error(OrDefault(task.errorMessage, FailedMsg("download")), FALSE)>>,
          next |-> "done"]
    ELSE IF task.status = "CANCELLED"
    THEN [calls |-> <<Error(CancelledMsg("download"), FALSE)>>, next |-> "done"]
    ELSE IF task.status = "PENDING" \/ task.status = "RUNNING"
    THEN [calls |-> <<NextEvent(OrZero(task.progressPercentage), FALSE, FALSE, FALSE)>>,
          next |-> "continue"]
    ELSE [calls |-> <<Error(UnknownMsg(task.status), FALSE)>>, next |-> "done"]

PollOutcomePendingSilent(f, task) ==
    IF task.status = "PENDING" THEN [calls |-> <<>>, next |-> "continue"]
    ELSE IF f = "upload" THEN UploadOutcome(task) ELSE DownloadOutcome(task)

PollOutcomeKeepsPolling(f, task) ==
    IF f = "upload" /\ task.status = "COMPLETED"
    THEN [calls |-> UploadOutcome(task).calls, next |-> "continue"]
    ELSE IF f = "upload" THEN UploadOutcome(task) ELSE DownloadOutcome(task)

PollOutcome(f, task) ==
    IF f = "upload" THEN UploadOutcome(task) ELSE DownloadOutcome(task)

\* error handler of the status check: nothing is emitted, the poll is retried
\* a failed status check that ends the polling without an observer call
ErrorOutcomeGivesUp(f) == [calls |-> <<>>, next |-> "done"]

ErrorOutcomeFails(f) == [calls |-> <<Error(HttpErrorMsg, FALSE)>>, next |-> "done"]

ErrorOutcome(f) == [calls |-> <<>>, next |-> "continue"]

\* what follows the handler of a status check
After(f, outcome, delay) ==
    /\ Emit(outcome.calls)
    /\ phase' = CASE outcome.next = "continue" -> "waiting"
                  [] outcome.next = "blob" -> "blob"
                  [] OTHER -> "done"
    /\ timer' = IF outcome.next = "continue" THEN delay ELSE 0
    /\ blobRequests' = IF outcome.next = "blob" THEN blobRequests + 1 ELSE blobRequests

\* GET /tasks/{id} answered with a task
StatusResponse(task) ==
    /\ phase = "polling"
    /\ lastTask' = task
    /\ After(flow, PollOutcome(flow, task), Delay(flow))
    /\ progressAnswers' = IF task.status \in {"PENDING", "RUNNING"}
                          THEN progressAnswers + 1 ELSE progressAnswers
    /\ UNCHANGED failedChecks
    /\ UNCHANGED <<flow, hasFile, inflight, pollCount, uploadRequests, syncRequests,
                   statusRequests, unsubscribed>>
    /\ UNCHANGED otherVars

\* GET /tasks/{id} failed (transport or server error)
StatusError ==
    /\ phase = "polling"
    /\ lastTask' = ErrTask
    /\ After(flow, ErrorOutcome(flow), RetryDelay(flow))
    /\ failedChecks' = failedChecks + 1
    /\ UNCHANGED progressAnswers
    /\ UNCHANGED <<flow, hasFile, inflight, pollCount, uploadRequests, syncRequests,
                   statusRequests, unsubscribed>>
    /\ UNCHANGED otherVars

\* the setTimeout callback: the next poll call, with pollCount + 1
TimerFires ==
    /\ phase = "waiting"
    /\ lastTask' = NoTask
    /\ Poll(flow, pollCount + 1)
    /\ UNCHANGED <<flow, hasFile, inflight, uploadRequests, syncRequests,
                   blobRequests, unsubscribed>>
    /\ UNCHANGED <<historyVars, otherVars>>

\* GET /tasks/{id}/result answered with the blob
BlobResponse ==
    /\ phase = "blob"
    /\ phase' = "done"
    /\ Emit(<<NextEvent(100, FALSE, FALSE, TRUE), Complete>>)
    /\ UNCHANGED <<flow, hasFile, inflight, pollCount, timer, uploadRequests,
                   syncRequests, statusRequests, blobRequests, lastTask,
                   unsubscribed>>
    /\ UNCHANGED <<historyVars, otherVars>>

\* GET /tasks/{id}/result failed
BlobError ==
    /\ phase = "blob"
    /\ phase' = "done"
    /\ Emit(<<Error(HttpErrorMsg, FALSE)>>)
    /\ UNCHANGED <<flow, hasFile, inflight, pollCount, timer, uploadRequests,
                   syncRequests, statusRequests, blobRequests, lastTask,
                   unsubscribed>>
    /\ UNCHANGED <<historyVars, otherVars>>

\* the subscriber unsubscribes (takeUntil(destroy$) on ngOnDestroy): the
\* subscriber is closed; the Observable of uploadFileAsync / downloadDataFileAsync
\* returns no teardown, so no request is aborted and no timer is cleared
Unsubscribe ==
    /\ flow \in Flows
    /\ phase \in {"submitting", "polling", "waiting", "blob"}
    /\ ~unsubscribed
    /\ unsubscribed' = TRUE
    /\ UNCHANGED <<flow, phase, hasFile, inflight, pollCount, timer, uploadRequests,
                   syncRequests, statusRequests, blobRequests, nextCalls,
                   terminalCalls, lastTask, lastCalls>>
    /\ UNCHANGED <<historyVars, otherVars>>

Next ==
    \/ \E file \in SubmitFiles : UploadFileAsync(file)
    \/ \E file \in SubmitFiles, ft \in {"", "styles"} : UploadFile(file, ft)
    \/ \E file \in SubmitFiles : UploadFileSync(file)
    \/ DownloadDataFileAsync
    \/ \E task \in Tasks : SubmitResponse(task)
    \/ SyncResponse
    \/ SubmitError
    \/ \E task \in Tasks : StatusResponse(task)
    \/ StatusError
    \/ TimerFires
    \/ BlobResponse
    \/ BlobError
    \/ Unsubscribe

Spec == Init /\ [][Next]_vars

\* The engine under a subscriber that stays subscribed, with every request in
\* flight answered, by a response or by an error, and every pending setTimeout
\* firing.
SubmissionEnds == (\E task \in Tasks : SubmitResponse(task)) \/ SyncResponse \/ SubmitError

StatusCheckEnds == (\E task \in Tasks : StatusResponse(task)) \/ StatusError

BlobRequestEnds == BlobResponse \/ BlobError

NextLive ==
    \/ \E file \in SubmitFiles : UploadFileAsync(file)
    \/ \E file \in SubmitFiles, ft \in {"", "styles"} : UploadFile(file, ft)
    \/ \E file \in SubmitFiles : UploadFileSync(file)
    \/ DownloadDataFileAsync
    \/ \E task \in Tasks : SubmitResponse(task)
    \/ SyncResponse
    \/ SubmitError
    \/ \E task \in Tasks : StatusResponse(task)
    \/ StatusError
    \/ TimerFires
    \/ BlobResponse
    \/ BlobError

SpecLive ==
    /\ Init
    /\ [][NextLive]_vars
    /\ WF_vars(SubmissionEnds)
    /\ WF_vars(StatusCheckEnds)
    /\ WF_vars(BlobRequestEnds)
    /\ WF_vars(TimerFires)

(***************************************************************************)
(* The validation helpers applied to bounded inputs                        *)
(***************************************************************************)
Units == {".", "t", "s", "v", "T", "I_dot"}

RECURSIVE NamesOfLen(_)
NamesOfLen(n) ==
    IF n = 0 THEN {<<>>}
    ELSE {<<c>> \o rest : c \in Units, rest \in NamesOfLen(n - 1)}

Names ==
    UNION {NamesOfLen(n) : n \in 0..MaxNameLen}
    \cup {DataTsv, DataCsv, <<"a", ".", "t", "x", "t">>, <<"a", ".", "T", "X", "T">>}

Sizes == {0, 10 * MiB, 50 * MiB - 1, 50 * MiB, 50 * MiB + 1, 51 * MiB}
MaxSizeArgs == {Absent, 10}

InitValid ==
    /\ flow = "none"
    /\ phase = "idle"
    /\ hasFile = FALSE
    /\ inflight = NoFile
    /\ pollCount = 0
    /\ timer = 0
    /\ uploadRequests = 0
    /\ syncRequests = 0
    /\ statusRequests = 0
    /\ blobRequests = 0
    /\ nextCalls = 0
    /\ terminalCalls = 0
    /\ lastTask = NoTask
    /\ lastCalls = <<>>
    /\ unsubscribed = FALSE
    /\ progressAnswers = 0
    /\ failedChecks = 0
    /\ vFile \in [name : Names, size : Sizes]
    /\ vMaxSizeMB \in MaxSizeArgs
    /\ vType = <<>>
    /\ vSize = <<>>
    /\ LaterIdle

\* a caller evaluates isValidFileType(vFile)
CallIsValidFileType ==
    /\ vType = <<>>
    /\ vType' = <<isValidFileType(vFile)>>
    /\ UNCHANGED <<engineVars, historyVars, vFile, vMaxSizeMB, vSize, laterVars>>

\* a caller evaluates isValidFileSize(vFile, vMaxSizeMB)
CallIsValidFileSize ==
    /\ vSize = <<>>
    /\ vSize' = <<isValidFileSize(vFile, vMaxSizeMB)>>
    /\ UNCHANGED <<engineVars, historyVars, vFile, vMaxSizeMB, vType, laterVars>>

NextValid ==
    \/ CallIsValidFileType
    \/ CallIsValidFileSize

SpecValid == InitValid /\ [][NextValid]_vars

(***************************************************************************)
(* The polling engine and the validation helpers before any call           *)
(***************************************************************************)
EngineIdle ==
    /\ flow = "none"
    /\ phase = "idle"
    /\ hasFile = FALSE
    /\ inflight = NoFile
    /\ pollCount = 0
    /\ timer = 0
    /\ uploadRequests = 0
    /\ syncRequests = 0
    /\ statusRequests = 0
    /\ blobRequests = 0
    /\ nextCalls = 0
    /\ terminalCalls = 0
    /\ lastTask = NoTask
    /\ lastCalls = <<>>
    /\ unsubscribed = FALSE
    /\ progressAnswers = 0
    /\ failedChecks = 0

ValidIdle ==
    /\ vFile = NoFile
    /\ vMaxSizeMB = Absent
    /\ vType = <<>>
    /\ vSize = <<>>

(***************************************************************************)
(* UploadService.checkUploadDependencies.  A snapshot (UploadStatus) is a  *)
(* function from the file-type keys it holds to their status records; a    *)
(* message is the sequence of the pieces it is built from.                 *)
(***************************************************************************)
FileTypes == {"styles", "stores", "skus", "sales"}

\* the flags of a status record (processing and failed: FALSE when not set)
StatusRecords == [exists : BOOLEAN, processing : BOOLEAN, failed : BOOLEAN]

SnapshotsOver(records) == UNION {[keys -> records] : keys \in SUBSET FileTypes}

\* statusData[k]?.exists is truthy
Exists(statusData, k) == k \in DOMAIN statusData /\ statusData[k].exists

\* Array.prototype.join
RECURSIVE join(_, _)
join(list, sep) ==
    IF Len(list) <= 1 THEN list
    ELSE <<list[1], sep>> \o join(Tail(list), sep)

Enabled == [enabled |-> TRUE, message |-> <<>>]
Disabled(message) == [enabled |-> FALSE, message |-> message]

\* 'Upload styles first (styles -> skus -> sales)', the arrows being U+2192
UploadOrderMsg == <<"Upload styles first (styles -> skus -> sales)">>

missingDepsStoresFirst(statusData) ==
    (IF ~Exists(statusData, "stores") THEN <<"stores">> ELSE <<>>)
    \o (IF ~Exists(statusData, "styles") THEN <<"styles">> ELSE <<>>)
    \o (IF ~Exists(statusData, "skus") THEN <<"skus">> ELSE <<>>)

\* the missingDeps array of the 'sales' case
missingDeps(statusData) ==
    (IF ~Exists(statusData, "styles") THEN <<"styles">> ELSE <<>>)
    \o (IF ~Exists(statusData, "skus") THEN <<"skus">> ELSE <<>>)
    \o (IF ~Exists(statusData, "stores") THEN <<"stores">> ELSE <<>>)

skusBlockedNever(statusData) == FALSE

\* the test of the 'skus' case
skusBlocked(statusData) == ~Exists(statusData, "styles")

checkUploadDependencies(fileType, statusData) ==
    CASE fileType \in {"styles", "stores"} -> Enabled
      [] fileType = "skus" ->
           IF skusBlocked(statusData) THEN Disabled(UploadOrderMsg) ELSE Enabled
      [] fileType = "sales" ->
           IF Len(missingDeps(statusData)) > 0
           THEN Disabled(<<"Upload ">> \o join(missingDeps(statusData), ", ")
                         \o <<" first">>)
           ELSE Enabled
      [] OTHER -> Enabled

\* the fileType arguments: the four file types and one that is none of them
FileTypeArgs == FileTypes \cup {"reports"}

InitDeps ==
    /\ EngineIdle
    /\ ValidIdle
    /\ dFileType \in FileTypeArgs
    /\ dStatusData \in SnapshotsOver(StatusRecords)
    /\ dStatusBefore = dStatusData
    /\ dResult = <<>>
    /\ ViewIdle
    /\ SvcIdle
    /\ StoresIdle
    /\ PagesIdle

\* a caller evaluates checkUploadDependencies(dFileType, dStatusData)
CallCheckUploadDependencies ==
    /\ dResult = <<>>
    /\ dResult' = <<checkUploadDependencies(dFileType, dStatusData)>>
    /\ UNCHANGED <<dFileType, dStatusData, dStatusBefore>>
    /\ UNCHANGED <<engineVars, historyVars, validVars, pageVars, viewVars, svcVars, themeVars,
                   sidebarVars>>

NextDeps == CallCheckUploadDependencies

SpecDeps == InitDeps /\ [][NextDeps]_vars

(***************************************************************************)
(* UploadComponent: the upload view.  An upload sequence is seen here by   *)
(* the events it delivers to the view (progress, completion, error).       *)
(***************************************************************************)
MaxActive == 2       \* upload sequences alive at a time, all file types together
MaxStatusOpen == 1   \* status requests in flight at a time

\* what the status endpoint can answer: no sales yet and each of the other
\* keys with or without data; styles being processed or failed beside data
\* for the rest; no key at all
ServerSnapshots ==
    LET record(e, p, f) == [exists |-> e, processing |-> p, failed |-> f]
        allData == [id \in FileTypes |-> record(TRUE, FALSE, FALSE)]
    IN {s \in [FileTypes -> {record(e, FALSE, FALSE) : e \in BOOLEAN}] :
           ~s["sales"].exists}
       \cup {[allData EXCEPT !["styles"] = r] :
               r \in {record(FALSE, TRUE, FALSE), record(FALSE, FALSE, TRUE)}}
       \cup {<<>>}

\* fallbackData of fetchDataStatus's error handler
fallbackData ==
    [id \in FileTypes |-> [exists |-> FALSE, processing |-> FALSE, failed |-> FALSE]]

\* the files the user can pick in the modal
ModalFiles == {[name |-> DataTsv, size |-> 10 * MiB], [name |-> DataCsv, size |-> 10 * MiB]}

Sum(f) == f["styles"] + f["stores"] + f["skus"] + f["sales"]

\* the forEach body without the `file.status !== 'error'` tests
UpdatedFileResets(file, id, statusData) ==
    LET st == IF id \in DOMAIN statusData
              THEN IF statusData[id].processing THEN "processing"
                   ELSE IF statusData[id].failed THEN "error"
                   ELSE IF statusData[id].exists THEN "success"
                   ELSE "pending"
              ELSE "pending"
        dependencyCheck == checkUploadDependencies(id, statusData)
    IN [status |-> IF ~dependencyCheck.enabled THEN "blocked" ELSE st,
        canUpload |-> dependencyCheck.enabled]

\* the body of updateUploadFilesStatus's forEach for one file
UpdatedFile(file, id, statusData) ==
    LET keep == IF file.status # "error" THEN "pending" ELSE file.status
        st == IF id \in DOMAIN statusData
              THEN IF statusData[id].processing THEN "processing"
                   ELSE IF statusData[id].failed THEN "error"
                   ELSE IF statusData[id].exists THEN "success"
                   ELSE keep
              ELSE keep
        dependencyCheck == checkUploadDependencies(id, statusData)
    IN [status |-> IF ~dependencyCheck.enabled THEN "blocked" ELSE st,
        canUpload |-> dependencyCheck.enabled]

updateUploadFilesStatus(statusData) ==
    uploadFiles' = [id \in FileTypes |-> UpdatedFile(uploadFiles[id], id, statusData)]

\* fetchDataStatus(): one more GET /file/status
fetchDataStatus == statusOpen' = statusOpen + 1

\* next handler of fetchDataStatus
FetchDataStatusNext(data) ==
    /\ statusOpen > 0
    /\ statusOpen' = statusOpen - 1
    /\ updateUploadFilesStatus(data)
    /\ lastSnapshot' = <<data>>
    /\ submitted' = ""
    /\ errorBefore' = {id \in FileTypes : uploadFiles[id].status = "error"}
    /\ UNCHANGED <<showUploadModal, selectedFileType, selectedFile, clearOpen,
                   activeUploads>>
    /\ UNCHANGED <<engineVars, historyVars, validVars, pageVars, depVars, svcVars, themeVars,
                   sidebarVars>>

\* error handler of fetchDataStatus
FetchDataStatusError == FetchDataStatusNext(fallbackData)

OpenUploadModal(fileType) ==
    /\ IF uploadFiles[fileType].canUpload
          /\ uploadFiles[fileType].status # "processing"
       THEN /\ selectedFileType' = fileType
            /\ selectedFile' = NoFile
            /\ showUploadModal' = TRUE
       ELSE UNCHANGED <<selectedFileType, selectedFile, showUploadModal>>
    /\ submitted' = ""
    /\ errorBefore' = {}
    /\ UNCHANGED <<uploadFiles, lastSnapshot, statusOpen, clearOpen, activeUploads>>
    /\ UNCHANGED <<engineVars, historyVars, validVars, pageVars, depVars, svcVars, themeVars,
                   sidebarVars>>

closeUploadModal ==
    /\ showUploadModal' = FALSE
    /\ selectedFile' = NoFile
    /\ selectedFileType' = ""

CloseUploadModal ==
    /\ showUploadModal
    /\ closeUploadModal
    /\ submitted' = ""
    /\ errorBefore' = {}
    /\ UNCHANGED <<uploadFiles, lastSnapshot, statusOpen, clearOpen, activeUploads>>
    /\ UNCHANGED <<engineVars, historyVars, validVars, pageVars, depVars, svcVars, themeVars,
                   sidebarVars>>

\* the file input of the modal changes
OnFileSelected(file) ==
    /\ showUploadModal
    /\ selectedFile' = file
    /\ submitted' = ""
    /\ errorBefore' = {}
    /\ UNCHANGED <<uploadFiles, lastSnapshot, showUploadModal, selectedFileType,
                   statusOpen, clearOpen, activeUploads>>
    /\ UNCHANGED <<engineVars, historyVars, validVars, pageVars, depVars, svcVars, themeVars,
                   sidebarVars>>

\* uploadFile(): the checks, closeUploadModal and the subscription to
\* uploadFileAsync(fileTypeToUpload, fileToUpload)
UploadFileFromModal ==
    /\ IF \/ selectedFile = NoFile \/ selectedFileType = ""
          \/ ~isValidFileType(selectedFile)
          \/ ~isValidFileSize(selectedFile, Absent)
       THEN /\ submitted' = ""
            /\ UNCHANGED <<showUploadModal, selectedFileType, selectedFile,
                           activeUploads>>
       ELSE /\ Sum(activeUploads) < MaxActive
            /\ closeUploadModal
            /\ activeUploads' = [activeUploads EXCEPT ![selectedFileType] = @ + 1]
            /\ submitted' = selectedFileType
    /\ errorBefore' = {}
    /\ UNCHANGED <<uploadFiles, lastSnapshot, statusOpen, clearOpen>>
    /\ UNCHANGED <<engineVars, historyVars, validVars, pageVars, depVars, svcVars, themeVars,
                   sidebarVars>>

\* next handler of uploadFile: a progress event {progress, task}
UploadProgress(fileTypeToUpload) ==
    /\ activeUploads[fileTypeToUpload] > 0
    /\ uploadFiles' = [uploadFiles EXCEPT ![fileTypeToUpload].status = "processing"]
    /\ submitted' = ""
    /\ errorBefore' = {}
    /\ UNCHANGED <<lastSnapshot, showUploadModal, selectedFileType, selectedFile,
                   statusOpen, clearOpen, activeUploads>>
    /\ UNCHANGED <<engineVars, historyVars, validVars, pageVars, depVars, svcVars, themeVars,
                   sidebarVars>>

\* next handler of uploadFile: the completion event {progress: 100, task,
\* completed: true}, after which the sequence completes
UploadCompleted(fileTypeToUpload) ==
    /\ activeUploads[fileTypeToUpload] > 0
    /\ statusOpen < MaxStatusOpen
    /\ uploadFiles' = [uploadFiles EXCEPT ![fileTypeToUpload].status = "success"]
    /\ fetchDataStatus
    /\ activeUploads' = [activeUploads EXCEPT ![fileTypeToUpload] = @ - 1]
    /\ submitted' = ""
    /\ errorBefore' = {}
    /\ UNCHANGED <<lastSnapshot, showUploadModal, selectedFileType, selectedFile,
                   clearOpen>>
    /\ UNCHANGED <<engineVars, historyVars, validVars, pageVars, depVars, svcVars, themeVars,
                   sidebarVars>>

\* error handler of uploadFile
UploadFailed(fileTypeToUpload) ==
    /\ activeUploads[fileTypeToUpload] > 0
    /\ uploadFiles' = [uploadFiles EXCEPT ![fileTypeToUpload].status = "error"]
    /\ activeUploads' = [activeUploads EXCEPT ![fileTypeToUpload] = @ - 1]
    /\ submitted' = ""
    /\ errorBefore' = {}
    /\ UNCHANGED <<lastSnapshot, showUploadModal, selectedFileType, selectedFile,
                   statusOpen, clearOpen>>
    /\ UNCHANGED <<engineVars, historyVars, validVars, pageVars, depVars, svcVars, themeVars,
                   sidebarVars>>

\* clearAllData(), confirmed by the user
ClearAllData ==
    /\ clearOpen = 0
    /\ clearOpen' = 1
    /\ submitted' = ""
    /\ errorBefore' = {}
    /\ UNCHANGED <<uploadFiles, lastSnapshot, showUploadModal, selectedFileType,
                   selectedFile, statusOpen, activeUploads>>
    /\ UNCHANGED <<engineVars, historyVars, validVars, pageVars, depVars, svcVars, themeVars,
                   sidebarVars>>

\* next / error handler of clearAllData
ClearAllDataAnswered(ok) ==
    /\ clearOpen > 0
    /\ clearOpen' = clearOpen - 1
    /\ IF ok THEN statusOpen < MaxStatusOpen /\ fetchDataStatus
       ELSE UNCHANGED statusOpen
    /\ submitted' = ""
    /\ errorBefore' = {}
    /\ UNCHANGED <<uploadFiles, lastSnapshot, showUploadModal, selectedFileType,
                   selectedFile, activeUploads>>
    /\ UNCHANGED <<engineVars, historyVars, validVars, pageVars, depVars, svcVars, themeVars,
                   sidebarVars>>

\* the view after ngOnInit: the first status request is in flight
InitView ==
    /\ EngineIdle
    /\ ValidIdle
    /\ DepsIdle
    /\ uploadFiles = [id \in FileTypes |-> [status |-> "pending", canUpload |-> TRUE]]
    /\ lastSnapshot = <<>>
    /\ showUploadModal = FALSE
    /\ selectedFileType = ""
    /\ selectedFile = NoFile
    /\ statusOpen = 1
    /\ clearOpen = 0
    /\ activeUploads = [id \in FileTypes |-> 0]
    /\ submitted = ""
    /\ errorBefore = {}
    /\ SvcIdle
    /\ StoresIdle
    /\ PagesIdle

NextView ==
    \/ \E data \in ServerSnapshots : FetchDataStatusNext(data)
    \/ FetchDataStatusError
    \/ \E fileType \in FileTypes : OpenUploadModal(fileType)
    \/ CloseUploadModal
    \/ \E file \in ModalFiles : OnFileSelected(file)
    \/ UploadFileFromModal
    \/ \E fileType \in FileTypes : UploadProgress(fileType)
    \/ \E fileType \in FileTypes : UploadCompleted(fileType)
    \/ \E fileType \in FileTypes : UploadFailed(fileType)
    \/ ClearAllData
    \/ \E ok \in BOOLEAN : ClearAllDataAnswered(ok)

SpecView == InitView /\ [][NextView]_vars

(***************************************************************************)
(* The data services: one entry per HTTP call, with the request method and *)
(* what the call's pipe does with a failed request: "of" (catchError       *)
(* answers of(<static value>)), "throw" (catchError rethrows, directly or  *)
(* through handleError), "none" (no catchError), "ofIfText" (of(...) when  *)
(* error.error is a non-empty string, handleError otherwise).              *)
(***************************************************************************)
SvcCall(name, method, onError) == [name |-> name, method |-> method, onError |-> onError]

UploadServiceCalls ==
    { SvcCall("UploadService.getUploadStatus", "GET", "ofIfText"),
      SvcCall("UploadService.downloadErrorFile", "GET", "throw"),
      SvcCall("UploadService.downloadValidationReport", "GET", "throw"),
      SvcCall("UploadService.downloadErrorReport", "GET", "throw"),
      SvcCall("UploadService.downloadSkippedRecords", "GET", "throw"),
      SvcCall("UploadService.getErrorReport", "GET", "throw"),
      SvcCall("UploadService.cancelTask", "POST", "throw"),
      SvcCall("UploadService.clearAllData", "DELETE", "throw"),
      SvcCall("UploadService.getAllTasks", "GET", "throw") }

AlgorithmServiceCalls ==
    { SvcCall("AlgorithmService.getCurrentParameters", "GET", "of"),
      SvcCall("AlgorithmService.getDefaultParameters", "GET", "of"),
      SvcCall("AlgorithmService.updateCurrentParameters", "POST", "of"),
      SvcCall("AlgorithmService.runNoosAlgorithmAsync", "POST", "of"),
      SvcCall("AlgorithmService.runNoosAlgorithm", "POST", "of"),
      SvcCall("AlgorithmService.getActiveParameterSets", "GET", "of"),
      SvcCall("AlgorithmService.getRecentParameterSets", "GET", "of"),
      SvcCall("AlgorithmService.createParameterSet", "POST", "of") }

AlgorithmParametersServiceCalls ==
    { SvcCall("AlgorithmParametersService.getParameterSets", "GET", "of"),
      SvcCall("AlgorithmParametersService.getDefaultParameters", "GET", "of"),
      SvcCall("AlgorithmParametersService.getParameterSet", "GET", "of"),
      SvcCall("AlgorithmParametersService.saveParameterSet", "POST", "throw"),
      SvcCall("AlgorithmParametersService.updateParameterSet", "PUT", "throw"),
      SvcCall("AlgorithmParametersService.getCurrentParameters", "GET", "of"),
      SvcCall("AlgorithmParametersService.getRecentParameterSets", "GET", "of"),
      SvcCall("AlgorithmParametersService.activateParameterSet", "POST", "throw") }

ReportsServiceCalls ==
    { SvcCall("ReportsService.getNoosAnalyticsReport", "GET", "of"),
      SvcCall("ReportsService.getSystemHealthReport", "GET", "of"),
      SvcCall("ReportsService.downloadNoosAnalyticsReport", "GET", "of"),
      SvcCall("ReportsService.downloadSystemHealthReport", "GET", "of"),
      SvcCall("ReportsService.downloadNoosRun", "GET", "of"),
      SvcCall("ReportsService.deleteNoosRun", "DELETE", "throw") }

\* the requests NotificationService subscribes to itself
NotificationServiceCalls ==
    { SvcCall("NotificationService.loadNotifications", "GET", "of"),
      SvcCall("NotificationService.markAsRead", "PUT", "of"),
      SvcCall("NotificationService.markAllAsRead", "PUT", "of") }

TaskServiceCalls ==
    { SvcCall("TaskService.getTasks", "GET", "of"),
      SvcCall("TaskService.getTask", "GET", "of"),
      SvcCall("TaskService.getTaskStats", "GET", "of"),
      SvcCall("TaskService.getTasksByStatus", "GET", "of"),
      SvcCall("TaskService.cancelTask", "POST", "of") }

DashboardServiceCalls ==
    { SvcCall("DashboardService.getDashboardMetrics", "GET", "of"),
      SvcCall("DashboardService.getNoosDashboardData", "GET", "of"),
      SvcCall("DashboardService.getLatestNoosResults", "GET", "of"),
      SvcCall("DashboardService.getNoosResultsSummary", "GET", "of"),
      SvcCall("DashboardService.downloadNoosResults", "GET", "none"),
      SvcCall("DashboardService.getTaskStats", "GET", "of"),
      SvcCall("DashboardService.getRecentTasks", "GET", "of"),
      SvcCall("DashboardService.runNoosAlgorithm", "POST", "throw"),
      SvcCall("DashboardService.runNoosAlgorithmSync", "POST", "throw"),
      SvcCall("DashboardService.getTask", "GET", "of"),
      SvcCall("DashboardService.getSystemHealth", "GET", "of"),
      SvcCall("DashboardService.getNoosAnalytics", "GET", "of") }

ServiceCalls ==
    UploadServiceCalls \cup AlgorithmServiceCalls \cup AlgorithmParametersServiceCalls
    \cup ReportsServiceCalls \cup NotificationServiceCalls \cup TaskServiceCalls
    \cup DashboardServiceCalls

\* error.error of a failed request: an HTML page, a plain text, the empty
\* text, a JSON object, nothing (no response reached the client)
ErrorBodies == {"<html>", "text", "empty text", "{json}", "null"}

\* error.error && typeof error.error === 'string'
IsNonEmptyText(body) == body \in {"<html>", "text"}

\* what the subscriber of a call gets when its request fails
OnFailure(call, body) ==
    CASE call.onError = "of" -> "fallback"
      [] call.onError = "ofIfText" ->
           IF IsNonEmptyText(body) THEN "fallback" ELSE "error"
      [] call.onError \in {"throw", "none"} -> "error"

InitSvc ==
    /\ EngineIdle
    /\ ValidIdle
    /\ DepsIdle
    /\ ViewIdle
    /\ SvcIdle
    /\ StoresIdle
    /\ PagesIdle

\* a caller subscribes to the Observable a service method returned
SvcSubscribe(call) ==
    /\ svcCall = NoCall
    /\ svcCall' = call
    /\ svcPending' = TRUE
    /\ UNCHANGED <<svcBody, svcOutcome>>
    /\ UNCHANGED <<engineVars, historyVars, validVars, pageVars, depVars, viewVars, themeVars,
                   sidebarVars>>

\* the request succeeds
SvcResponse ==
    /\ svcPending
    /\ svcPending' = FALSE
    /\ svcOutcome' = "response"
    /\ UNCHANGED <<svcCall, svcBody>>
    /\ UNCHANGED <<engineVars, historyVars, validVars, pageVars, depVars, viewVars, themeVars,
                   sidebarVars>>

\* the request fails (transport or server error) with the given error.error
SvcFailure(body) ==
    /\ svcPending
    /\ svcPending' = FALSE
    /\ svcBody' = body
    /\ svcOutcome' = OnFailure(svcCall, body)
    /\ UNCHANGED svcCall
    /\ UNCHANGED <<engineVars, historyVars, validVars, pageVars, depVars, viewVars, themeVars,
                   sidebarVars>>

NextSvc ==
    \/ \E call \in ServiceCalls : SvcSubscribe(call)
    \/ SvcResponse
    \/ \E body \in ErrorBodies : SvcFailure(body)

SpecSvc == InitSvc /\ [][NextSvc]_vars

(***************************************************************************)
(* ThemeService and SidebarStateService: the stores kept in localStorage.  *)
(* localStorage.setItem either stores the item or throws (quota exceeded,  *)
(* storage disabled); `accepted` says which.                               *)
(***************************************************************************)
ThemeModes == {"light", "dark", "system"}

isDarkIgnoresSystem(mode, prefersDark) == mode = "dark"

\* the computed signal _isDark
isDark(mode, prefersDark) == IF mode = "system" THEN prefersDark ELSE mode = "dark"

\* updateThemeState() with the signals holding the given values
updateThemeState(mode, prefersDark) ==
    themeState' = [mode |-> mode, isDark |-> isDark(mode, prefersDark),
                   systemPrefersDark |-> prefersDark]

\* applyTheme() with the signals holding the given values
applyTheme(mode, prefersDark) ==
    dataTheme' = IF isDark(mode, prefersDark) THEN "dark" ELSE "light"

getSavedThemePreferenceUnchecked(stored) == stored

\* getSavedThemePreference(): <<mode>>, or <<>> for null
getSavedThemePreference(stored) ==
    IF stored # <<>> /\ stored[1] # "" /\ stored[1] \in ThemeModes
    THEN stored ELSE <<>>

\* savedTheme || 'system'
OrSystem(savedTheme) ==
    IF savedTheme = <<>> \/ savedTheme[1] = "" THEN "system" ELSE savedTheme[1]

\* setTheme(mode), localStorage holding `stored` when it is called
setTheme(mode, stored, accepted) ==
    /\ themeMode' = mode
    /\ updateThemeState(mode, systemPrefersDark)
    /\ applyTheme(mode, systemPrefersDark)
    /\ themeStorage' = IF accepted THEN <<mode>> ELSE stored
    /\ lastSet' = <<mode>>
    /\ lastSetSaved' = accepted
    /\ themeFresh' = FALSE
    /\ UNCHANGED systemPrefersDark

\* setTheme, setLightTheme, setDarkTheme, setSystemTheme, resetTheme
SetTheme(mode, accepted) ==
    /\ setTheme(mode, themeStorage, accepted)
    /\ UNCHANGED <<engineVars, historyVars, validVars, pageVars, depVars, viewVars, svcVars,
                   sidebarVars>>

ToggleTheme(accepted) ==
    /\ IF themeMode = "system"
       THEN setTheme(IF systemPrefersDark THEN "light" ELSE "dark", themeStorage,
                     accepted)
       ELSE setTheme(IF themeMode = "light" THEN "dark" ELSE "light", themeStorage,
                     accepted)
    /\ UNCHANGED <<engineVars, historyVars, validVars, pageVars, depVars, viewVars, svcVars,
                   sidebarVars>>

\* clearThemePreference(): removeItem, which may throw, then resetTheme()
ClearThemePreference(removed, accepted) ==
    /\ IF removed THEN setTheme("system", <<>>, accepted) ELSE UNCHANGED themeVars
    /\ UNCHANGED <<engineVars, historyVars, validVars, pageVars, depVars, viewVars, svcVars,
                   sidebarVars>>

\* the 'change' listener of the prefers-color-scheme media query
SystemThemeChanged ==
    /\ systemPrefersDark' = ~systemPrefersDark
    /\ updateThemeState(themeMode, ~systemPrefersDark)
    /\ IF themeMode = "system" THEN applyTheme(themeMode, ~systemPrefersDark)
       ELSE UNCHANGED dataTheme
    /\ themeFresh' = FALSE
    /\ UNCHANGED <<themeMode, themeStorage, lastSet, lastSetSaved>>
    /\ UNCHANGED <<engineVars, historyVars, validVars, pageVars, depVars, viewVars, svcVars,
                   sidebarVars>>

\* a theme store constructed over what localStorage holds and the media query
\* says: the field initialisers and initializeTheme()
NewThemeStore(mode, prefersDark, state, attribute, stored) ==
    /\ mode = OrSystem(getSavedThemePreference(stored))
    /\ state = [mode |-> mode, isDark |-> isDark(mode, prefersDark),
                systemPrefersDark |-> prefersDark]
    /\ attribute = IF isDark(mode, prefersDark) THEN "dark" ELSE "light"

\* the page is loaded again: new ThemeService()
ConstructTheme(matches) ==
    /\ systemPrefersDark' = matches
    /\ NewThemeStore(themeMode', matches, themeState', dataTheme', themeStorage)
    /\ themeFresh' = TRUE
    /\ UNCHANGED <<themeStorage, lastSet, lastSetSaved>>
    /\ UNCHANGED <<engineVars, historyVars, validVars, pageVars, depVars, viewVars, svcVars,
                   sidebarVars>>

\* String(collapsed)
String(b) == IF b THEN "true" ELSE "false"

\* initialState of the SidebarStateService constructor
initialState(savedState) ==
    IF savedState # <<>> THEN savedState[1] = "true" ELSE FALSE

\* setCollapsed(value): the subject is updated before the item is written
setCollapsed(value, accepted) ==
    /\ collapsed' = value
    /\ sidebarStorage' = IF accepted THEN <<String(value)>> ELSE sidebarStorage

SetCollapsed(value, accepted) ==
    /\ setCollapsed(value, accepted)
    /\ sidebarLast' = "set"
    /\ UNCHANGED sidebarMark
    /\ UNCHANGED <<engineVars, historyVars, validVars, pageVars, depVars, viewVars, svcVars,
                   themeVars>>

Toggle(accepted) ==
    /\ setCollapsed(~collapsed, accepted)
    /\ IF sidebarLast = "toggle"
       THEN sidebarLast' = "toggle2" /\ UNCHANGED sidebarMark
       ELSE sidebarLast' = "toggle" /\ sidebarMark' = <<collapsed, sidebarStorage>>
    /\ UNCHANGED <<engineVars, historyVars, validVars, pageVars, depVars, viewVars, svcVars,
                   themeVars>>

\* the page is loaded again: new SidebarStateService()
ConstructSidebar ==
    /\ collapsed' = initialState(sidebarStorage)
    /\ sidebarLast' = "construct"
    /\ UNCHANGED <<sidebarStorage, sidebarMark>>
    /\ UNCHANGED <<engineVars, historyVars, validVars, pageVars, depVars, viewVars, svcVars,
                   themeVars>>

\* what localStorage can hold when the page is loaded
StoredThemes == {<<>>, <<"light">>, <<"dark">>, <<"system">>, <<"auto">>, <<"">>}
StoredSidebars == {<<>>, <<"true">>, <<"false">>, <<"1">>}

InitStores ==
    /\ EngineIdle
    /\ ValidIdle
    /\ DepsIdle
    /\ ViewIdle
    /\ SvcIdle
    /\ PagesIdle
    /\ themeStorage \in StoredThemes
    /\ systemPrefersDark \in BOOLEAN
    /\ themeMode = OrSystem(getSavedThemePreference(themeStorage))
    /\ NewThemeStore(themeMode, systemPrefersDark, themeState, dataTheme, themeStorage)
    /\ themeFresh = TRUE
    /\ lastSet = <<>>
    /\ lastSetSaved = FALSE
    /\ sidebarStorage \in StoredSidebars
    /\ collapsed = initialState(sidebarStorage)
    /\ sidebarLast = "construct"
    /\ sidebarMark = <<collapsed, sidebarStorage>>

NextStores ==
    \/ \E mode \in ThemeModes, accepted \in BOOLEAN : SetTheme(mode, accepted)
    \/ \E accepted \in BOOLEAN : ToggleTheme(accepted)
    \/ \E removed, accepted \in BOOLEAN : ClearThemePreference(removed, accepted)
    \/ SystemThemeChanged
    \/ \E matches \in BOOLEAN : ConstructTheme(matches)
    \/ \E value, accepted \in BOOLEAN : SetCollapsed(value, accepted)
    \/ \E accepted \in BOOLEAN : Toggle(accepted)
    \/ ConstructSidebar

SpecStores == InitStores /\ [][NextStores]_vars

(***************************************************************************)
(* NotificationService: the notification store.  A notification is kept by *)
(* its id (<<"notification", n>> for `notification-<n>-<time>`,            *)
(* <<"backend", n>> for `backend-<n>`), its isRead flag (FALSE also stands *)
(* for the field left unset) and whether it has a positive duration, that  *)
(* is, a removal timer.                                                    *)
(***************************************************************************)
MaxLocal == 1        \* notifications added locally in a behaviour
MaxNotifOpen == 2    \* notification requests in flight at a time

BackendIds == {1, 2} \* ids of the server's notifications

BackendNotifications == [id : BackendIds, isRead : BOOLEAN]

\* the `notifications` array of a response of GET /notifications
BackendPages ==
    {page \in UNION {[1..n -> BackendNotifications] : n \in 0..Cardinality(BackendIds)} :
        \A i, j \in DOMAIN page : page[i].id = page[j].id => i = j}

mapBackendToFrontend(backend) ==
    [id |-> <<"backend", backend.id>>, isRead |-> backend.isRead, timed |-> FALSE]

\* currentNotifications.map(n => ({...n, isRead: true})) whatever the id
markEveryRead(list, id) ==
    [i \in DOMAIN list |-> [list[i] EXCEPT !.isRead = TRUE]]

\* currentNotifications.map(n => n.id === notificationId ? {...n, isRead: true} : n)
markRead(list, id) ==
    [i \in DOMAIN list |->
        IF list[i].id = id THEN [list[i] EXCEPT !.isRead = TRUE]
        ELSE list[i]]

NotifIds == {notifications[i].id : i \in DOMAIN notifications}

NotifStep(op, ok, id) ==
    notifLast' = [op |-> op, ok |-> ok, id |-> id, before |-> notifications]

\* success / error / warning / info: generateId, then addNotification
AddNotification(timed) ==
    /\ notificationId < MaxLocal
    /\ notificationId' = notificationId + 1
    /\ notifications' = Append(notifications,
            [id |-> <<"notification", notificationId + 1>>, isRead |-> FALSE,
             timed |-> timed])
    /\ NotifStep("addNotification", "", <<>>)
    /\ UNCHANGED notifOpen
    /\ UNCHANGED <<engineVars, historyVars, validVars, depVars, viewVars, svcVars,
                   themeVars, sidebarVars, runsVars, layoutVars, paramsVars>>

\* removeNotification(id), called by the panel or by the timer of a
\* notification with a positive duration
RemoveNotification(id) ==
    /\ id \in NotifIds
    /\ notifications' = SelectSeq(notifications, LAMBDA n : n.id # id)
    /\ NotifStep("removeNotification", "", id)
    /\ UNCHANGED <<notificationId, notifOpen>>
    /\ UNCHANGED <<engineVars, historyVars, validVars, depVars, viewVars, svcVars,
                   themeVars, sidebarVars, runsVars, layoutVars, paramsVars>>

\* a call that only issues a request: loadNotifications / refreshNotifications,
\* markAsRead(id), markAllAsRead()
NotifRequest(call, op, id) ==
    /\ Cardinality(notifOpen) < MaxNotifOpen
    /\ [op |-> op, id |-> id] \notin notifOpen
    /\ notifOpen' = notifOpen \cup {[op |-> op, id |-> id]}
    /\ NotifStep(call, "", id)
    /\ UNCHANGED <<notifications, notificationId>>
    /\ UNCHANGED <<engineVars, historyVars, validVars, depVars, viewVars, svcVars,
                   themeVars, sidebarVars, runsVars, layoutVars, paramsVars>>

LoadNotifications == NotifRequest("loadNotifications", "load", <<>>)

MarkAsRead(id) == id \in NotifIds /\ NotifRequest("markAsRead", "read", id)

MarkAllAsRead == NotifRequest("markAllAsRead", "readAll", <<>>)

\* a request is answered: ok is "ok" (2xx; for read-all, with success: true),
\* "refused" (2xx with success: false) or "error" (catchError: the fallback)
NotifAnswered(req, ok, list) ==
    /\ req \in notifOpen
    /\ notifOpen' = notifOpen \ {req}
    /\ notifications' = list
    /\ NotifStep(req.op, ok, req.id)
    /\ UNCHANGED notificationId
    /\ UNCHANGED <<engineVars, historyVars, validVars, depVars, viewVars, svcVars,
                   themeVars, sidebarVars, runsVars, layoutVars, paramsVars>>

\* subscribe callback of loadNotifications; a failed request yields the empty page
LoadAnswered(ok, page) ==
    /\ ok = "error" => page = <<>>
    /\ NotifAnswered([op |-> "load", id |-> <<>>], ok,
                     [i \in DOMAIN page |-> mapBackendToFrontend(page[i])])

\* subscribe callback of markAsRead: runs after of(null) as well
MarkAsReadAnswered(id, ok) ==
    NotifAnswered([op |-> "read", id |-> id], ok, markRead(notifications, id))

\* subscribe callback of markAllAsRead: response && response.success
MarkAllAsReadAnswered(ok) ==
    NotifAnswered([op |-> "readAll", id |-> <<>>], ok,
                  IF ok = "ok"
                  THEN [i \in DOMAIN notifications |->
                            [notifications[i] EXCEPT !.isRead = TRUE]]
                  ELSE notifications)

AllNotifIds == ({"notification"} \X (1..MaxLocal)) \cup ({"backend"} \X BackendIds)

InitNotif ==
    /\ EngineIdle
    /\ ValidIdle
    /\ LaterIdle

NextNotif ==
    \/ \E timed \in BOOLEAN : AddNotification(timed)
    \/ \E id \in AllNotifIds : RemoveNotification(id)
    \/ LoadNotifications
    \/ \E id \in AllNotifIds : MarkAsRead(id)
    \/ MarkAllAsRead
    \/ \E ok \in {"ok", "error"}, page \in BackendPages : LoadAnswered(ok, page)
    \/ \E id \in AllNotifIds, ok \in {"ok", "error"} : MarkAsReadAnswered(id, ok)
    \/ \E ok \in {"ok", "refused", "error"} : MarkAllAsReadAnswered(ok)

SpecNotif == InitNotif /\ [][NextNotif]_vars

(***************************************************************************)
(* NoosAnalyticsComponent: the list of NOOS runs.  A run is kept by its    *)
(* id; a run with a larger id has a later executionDate.  The server's     *)
(* handling of a request and the arrival of its response are one step.     *)
(***************************************************************************)
MaxRunsOpen == 2     \* analytics requests in flight at a time

RunIds == {1, 2, 3}  \* ids of the runs the server holds at first

\* data.sort((a, b) => date(b) - date(a)): most recent first
RECURSIVE SortedDescending(_)
SortedDescending(runs) ==
    IF runs = {} THEN <<>>
    ELSE LET latest == CHOOSE r \in runs : \A q \in runs : q <= r
         IN <<latest>> \o SortedDescending(runs \ {latest})

\* list.splice(index, 1), index counted from 0
splice(list, index) ==
    [i \in 1..(Len(list) - (IF index < Len(list) THEN 1 ELSE 0)) |->
        IF i <= index THEN list[i] ELSE list[i + 1]]

RunsStep(op, id) == runsLast' = [op |-> op, id |-> id, before |-> reportData]

\* loadReportData() / refreshData()
LoadReportData ==
    /\ Cardinality(runsOpen) < MaxRunsOpen
    /\ [op |-> "load", id |-> 0, index |-> 0] \notin runsOpen
    /\ runsOpen' = runsOpen \cup {[op |-> "load", id |-> 0, index |-> 0]}
    /\ RunsStep("loadReportData", 0)
    /\ UNCHANGED <<reportData, serverRuns>>
    /\ UNCHANGED <<engineVars, historyVars, validVars, depVars, viewVars, svcVars,
                   themeVars, sidebarVars, notifVars, layoutVars, paramsVars>>

\* next handler of loadReportData: the report, or [] from the service's
\* catchError when the request failed
LoadReportDataNext(ok) ==
    /\ [op |-> "load", id |-> 0, index |-> 0] \in runsOpen
    /\ runsOpen' = runsOpen \ {[op |-> "load", id |-> 0, index |-> 0]}
    /\ reportData' = SortedDescending(IF ok THEN serverRuns ELSE {})
    /\ RunsStep(IF ok THEN "loaded" ELSE "load failed", 0)
    /\ UNCHANGED serverRuns
    /\ UNCHANGED <<engineVars, historyVars, validVars, depVars, viewVars, svcVars,
                   themeVars, sidebarVars, notifVars, layoutVars, paramsVars>>

\* deleteRun(run, index) with run = reportData[index], confirmed by the user
DeleteRun(index) ==
    /\ index < Len(reportData)
    /\ Cardinality(runsOpen) < MaxRunsOpen
    /\ \A req \in runsOpen : req.op = "delete" => req.id # reportData[index + 1]
    /\ runsOpen' = runsOpen \cup
            {[op |-> "delete", id |-> reportData[index + 1], index |-> index]}
    /\ RunsStep("deleteRun", reportData[index + 1])
    /\ UNCHANGED <<reportData, serverRuns>>
    /\ UNCHANGED <<engineVars, historyVars, validVars, depVars, viewVars, svcVars,
                   themeVars, sidebarVars, notifVars, layoutVars, paramsVars>>

\* next handler of deleteRun: the server has deleted the run
DeleteRunNext(req) ==
    /\ req \in runsOpen
    /\ req.op = "delete"
    /\ req.id \in serverRuns
    /\ runsOpen' = runsOpen \ {req}
    /\ serverRuns' = serverRuns \ {req.id}
    /\ reportData' = splice(reportData, req.index)
    /\ RunsStep("deleted", req.id)
    /\ UNCHANGED <<engineVars, historyVars, validVars, depVars, viewVars, svcVars,
                   themeVars, sidebarVars, notifVars, layoutVars, paramsVars>>

\* error handler of deleteRun
DeleteRunError(req) ==
    /\ req \in runsOpen
    /\ req.op = "delete"
    /\ runsOpen' = runsOpen \ {req}
    /\ RunsStep("delete failed", req.id)
    /\ UNCHANGED <<reportData, serverRuns>>
    /\ UNCHANGED <<engineVars, historyVars, validVars, depVars, viewVars, svcVars,
                   themeVars, sidebarVars, notifVars, layoutVars, paramsVars>>

DeleteRequests ==
    [op : {"delete"}, id : RunIds, index : 0..(Cardinality(RunIds) - 1)]

InitRuns ==
    /\ EngineIdle
    /\ ValidIdle
    /\ LaterIdle

NextRuns ==
    \/ LoadReportData
    \/ \E ok \in BOOLEAN : LoadReportDataNext(ok)
    \/ \E index \in 0..(Cardinality(RunIds) - 1) : DeleteRun(index)
    \/ \E req \in DeleteRequests : DeleteRunNext(req)
    \/ \E req \in DeleteRequests : DeleteRunError(req)

SpecRuns == InitRuns /\ [][NextRuns]_vars

(***************************************************************************)
(* MainLayoutComponent over the sidebar state store.  toggleSidebar,       *)
(* closeSidebar and onResize test innerWidth <= 1024; the isHandset$       *)
(* subscription of ngOnInit follows Breakpoints.Handset.                   *)
(***************************************************************************)
Widths == {"handset", "tablet", "desktop"}

\* innerWidth <= 1024
isHandset(w) == w # "desktop"

\* breakpointObserver.observe(Breakpoints.Handset): result.matches
matches(w) == w = "handset"

\* ngOnInit: the persisted state is read once; the isHandset$ subscription
\* delivers the current match at once
ngOnInit(isCollapsed) ==
    /\ sidebarCollapsed' = IF matches(width) THEN FALSE ELSE isCollapsed
    /\ sidebarOpen' = FALSE

\* the page is loaded: new SidebarStateService(), then the layout's ngOnInit
LoadPage ==
    /\ collapsed' = initialState(sidebarStorage)
    /\ ngOnInit(initialState(sidebarStorage))
    /\ sidebarLast' = "construct"
    /\ UNCHANGED <<sidebarStorage, sidebarMark, width>>
    /\ UNCHANGED <<engineVars, historyVars, validVars, depVars, viewVars, svcVars,
                   themeVars, notifVars, runsVars, paramsVars>>

\* toggleSidebar(); when setItem throws inside setCollapsed the statement
\* after the call is not reached
ToggleSidebar(accepted) ==
    /\ IF isHandset(width)
       THEN /\ sidebarOpen' = ~sidebarOpen
            /\ sidebarCollapsed' = FALSE
            /\ UNCHANGED <<collapsed, sidebarStorage, sidebarLast>>
       ELSE /\ sidebarCollapsed' = ~sidebarCollapsed
            /\ setCollapsed(~sidebarCollapsed, accepted)
            /\ sidebarLast' = "set"
            /\ sidebarOpen' = IF accepted THEN TRUE ELSE sidebarOpen
    /\ UNCHANGED <<sidebarMark, width>>
    /\ UNCHANGED <<engineVars, historyVars, validVars, depVars, viewVars, svcVars,
                   themeVars, notifVars, runsVars, paramsVars>>

\* closeSidebar()
CloseSidebar ==
    /\ IF isHandset(width)
       THEN sidebarOpen' = FALSE /\ sidebarCollapsed' = FALSE
       ELSE UNCHANGED <<sidebarOpen, sidebarCollapsed>>
    /\ UNCHANGED <<sidebarVars, width>>
    /\ UNCHANGED <<engineVars, historyVars, validVars, depVars, viewVars, svcVars,
                   themeVars, notifVars, runsVars, paramsVars>>

\* the window is resized to width w: onResize; the isHandset$ subscription,
\* when the match changes, assigns the same values
OnResize(w) ==
    /\ w # width
    /\ width' = w
    /\ sidebarOpen' = FALSE
    /\ sidebarCollapsed' = IF isHandset(w) THEN FALSE ELSE sidebarCollapsed
    /\ UNCHANGED sidebarVars
    /\ UNCHANGED <<engineVars, historyVars, validVars, depVars, viewVars, svcVars,
                   themeVars, notifVars, runsVars, paramsVars>>

\* the page loaded in a window of any width, over any stored item
InitLayout ==
    /\ EngineIdle
    /\ ValidIdle
    /\ DepsIdle
    /\ ViewIdle
    /\ SvcIdle
    /\ ThemeIdle
    /\ NotifIdle
    /\ RunsIdle
    /\ ParamsIdle
    /\ sidebarStorage \in StoredSidebars
    /\ collapsed = initialState(sidebarStorage)
    /\ sidebarLast = "construct"
    /\ sidebarMark = <<collapsed, sidebarStorage>>
    /\ width \in Widths
    /\ sidebarCollapsed = IF matches(width) THEN FALSE ELSE collapsed
    /\ sidebarOpen = FALSE

NextLayout ==
    \/ LoadPage
    \/ \E accepted \in BOOLEAN : ToggleSidebar(accepted)
    \/ CloseSidebar
    \/ \E w \in Widths : OnResize(w)

SpecLayout == InitLayout /\ [][NextLayout]_vars

(***************************************************************************)
(* The algorithm parameters view (AlgorithmParametersComponent).  The form *)
(* value is the set name and one of a few settings of the eight value      *)
(* fields; "invalid" is a setting some validator rejects.  The list of     *)
(* parameter sets (loadParameterSets) changes none of the state below: the *)
(* service answers a failure with of([]) and selectedParameterSet is never *)
(* empty.  The notifications the handlers raise are left to the            *)
(* notification store.                                                     *)
(***************************************************************************)
MaxParamsOpen == 2

ParameterSets == {"default", "custom"}

NewNames == {"fresh"}

\* what the backend can hold for a set, and what the user can type
StoredValues == {"defaults", "stored"}

TypedValues == {"typed", "invalid"}

\* parametersForm.valid
valid(form) == form.values # "invalid"

ParamsRequest(op, set, values) ==
    [op |-> op, set |-> set, values |-> values,
     tag |-> CHOOSE n \in 1..MaxParamsOpen :
                 /\ \A r \in paramsOpen : r.tag # n
                 /\ \A m \in 1..(n - 1) : \E r \in paramsOpen : r.tag = m]

\* parametersForm.patchValue / typing: the form changes and valueChanges
\* emits, which restarts the debounce timer
patchValue(form) ==
    /\ parametersForm' = form
    /\ debouncing' = TRUE

\* loadDefaultParameters' next handler; on a failure the service answers
\* with getFallbackParameters()
LoadDefaultParametersNext(ok, values) ==
    /\ \E req \in paramsOpen :
        /\ req.op = "default"
        /\ paramsOpen' = paramsOpen \ {req}
    /\ selectedParameterSet' = "default"
    /\ patchValue([parameterSetName |-> "default",
                   values |-> IF ok THEN values ELSE "defaults"])
    /\ UNCHANGED <<isAutoSaving, isSavingAsNew, isSaving, showSaveAsModal,
                   lastDistinct, failedSince>>
    /\ UNCHANGED <<engineVars, historyVars, validVars, depVars, viewVars, svcVars,
                   themeVars, sidebarVars, notifVars, runsVars, layoutVars>>

\* the user changes a field of the form
EditForm(values) ==
    /\ values # parametersForm.values
    /\ patchValue([parametersForm EXCEPT !.values = values])
    /\ failedSince' = {}
    /\ UNCHANGED <<selectedParameterSet, isAutoSaving, isSavingAsNew, isSaving,
                   showSaveAsModal, lastDistinct, paramsOpen>>
    /\ UNCHANGED <<engineVars, historyVars, validVars, depVars, viewVars, svcVars,
                   themeVars, sidebarVars, notifVars, runsVars, layoutVars>>

OnParameterSetChange(parameterSet) ==
    /\ Cardinality(paramsOpen) < MaxParamsOpen
    /\ selectedParameterSet' = parameterSet
    /\ paramsOpen' = paramsOpen \cup {ParamsRequest("activate", parameterSet, "")}
    /\ UNCHANGED <<parametersForm, isAutoSaving, isSavingAsNew, isSaving,
                   showSaveAsModal, debouncing, lastDistinct, failedSince>>
    /\ UNCHANGED <<engineVars, historyVars, validVars, depVars, viewVars, svcVars,
                   themeVars, sidebarVars, notifVars, runsVars, layoutVars>>

\* next handler of activateParameterSet: the form takes the activated set
ActivateNext(req, values) ==
    /\ req \in paramsOpen
    /\ req.op = "activate"
    /\ paramsOpen' = paramsOpen \ {req}
    /\ patchValue([parameterSetName |-> req.set, values |-> values])
    /\ failedSince' = failedSince \ {req.set}
    /\ UNCHANGED <<selectedParameterSet, isAutoSaving, isSavingAsNew, isSaving,
                   showSaveAsModal, lastDistinct>>
    /\ UNCHANGED <<engineVars, historyVars, validVars, depVars, viewVars, svcVars,
                   themeVars, sidebarVars, notifVars, runsVars, layoutVars>>

\* resetToDefaults patches the eight value fields, not parameterSetName
resetToDefaults == patchValue([parametersForm EXCEPT !.values = "defaults"])

\* error handler of activateParameterSet
ActivateError(req) ==
    /\ req \in paramsOpen
    /\ req.op = "activate"
    /\ paramsOpen' = paramsOpen \ {req}
    /\ resetToDefaults
    /\ failedSince' = failedSince \cup {req.set}
    /\ UNCHANGED <<selectedParameterSet, isAutoSaving, isSavingAsNew, isSaving,
                   showSaveAsModal, lastDistinct>>
    /\ UNCHANGED <<engineVars, historyVars, validVars, depVars, viewVars, svcVars,
                   themeVars, sidebarVars, notifVars, runsVars, layoutVars>>

autoSaveParameters ==
    IF isAutoSaving \/ isSavingAsNew
    THEN UNCHANGED <<isAutoSaving, paramsOpen>>
    ELSE /\ isAutoSaving' = TRUE
         /\ paramsOpen' = paramsOpen \cup
                {ParamsRequest("update", selectedParameterSet, parametersForm.values)}

\* setupAutoSave: the debounce timer fires with the form's value, passes
\* distinctUntilChanged when it differs from the value let through last, and
\* runs the subscriber
DebounceFires ==
    /\ debouncing
    /\ Cardinality(paramsOpen) < MaxParamsOpen
    /\ debouncing' = FALSE
    /\ IF parametersForm = lastDistinct
       THEN UNCHANGED <<lastDistinct, isAutoSaving, paramsOpen>>
       ELSE /\ lastDistinct' = parametersForm
            /\ IF valid(parametersForm) /\ ~isAutoSaving /\ selectedParameterSet # ""
               THEN autoSaveParameters
               ELSE UNCHANGED <<isAutoSaving, paramsOpen>>
    /\ UNCHANGED <<selectedParameterSet, parametersForm, isSavingAsNew, isSaving,
                   showSaveAsModal, failedSince>>
    /\ UNCHANGED <<engineVars, historyVars, validVars, depVars, viewVars, svcVars,
                   themeVars, sidebarVars, notifVars, runsVars, layoutVars>>

\* next and error handlers of updateParameterSet: both clear the flag
UpdateAnswered(req) ==
    /\ req \in paramsOpen
    /\ req.op = "update"
    /\ paramsOpen' = paramsOpen \ {req}
    /\ isAutoSaving' = FALSE
    /\ UNCHANGED <<selectedParameterSet, parametersForm, isSavingAsNew, isSaving,
                   showSaveAsModal, debouncing, lastDistinct, failedSince>>
    /\ UNCHANGED <<engineVars, historyVars, validVars, depVars, viewVars, svcVars,
                   themeVars, sidebarVars, notifVars, runsVars, layoutVars>>

OpenSaveAsModal ==
    /\ ~showSaveAsModal
    /\ showSaveAsModal' = TRUE
    /\ UNCHANGED <<selectedParameterSet, parametersForm, isAutoSaving, isSavingAsNew,
                   isSaving, debouncing, lastDistinct, paramsOpen, failedSince>>
    /\ UNCHANGED <<engineVars, historyVars, validVars, depVars, viewVars, svcVars,
                   themeVars, sidebarVars, notifVars, runsVars, layoutVars>>

CloseSaveAsModal ==
    /\ showSaveAsModal
    /\ showSaveAsModal' = FALSE
    /\ UNCHANGED <<selectedParameterSet, parametersForm, isAutoSaving, isSavingAsNew,
                   isSaving, debouncing, lastDistinct, paramsOpen, failedSince>>
    /\ UNCHANGED <<engineVars, historyVars, validVars, depVars, viewVars, svcVars,
                   themeVars, sidebarVars, notifVars, runsVars, layoutVars>>

\* confirmSaveAsNew with a name typed into the open dialog and a valid form;
\* the handler tests neither isSaving nor isAutoSaving
ConfirmSaveAsNew(name) ==
    /\ showSaveAsModal
    /\ valid(parametersForm)
    /\ Cardinality(paramsOpen) < MaxParamsOpen
    /\ isSavingAsNew' = TRUE
    /\ isSaving' = TRUE
    /\ paramsOpen' = paramsOpen \cup {ParamsRequest("save", name, parametersForm.values)}
    /\ UNCHANGED <<selectedParameterSet, parametersForm, isAutoSaving, showSaveAsModal,
                   debouncing, lastDistinct, failedSince>>
    /\ UNCHANGED <<engineVars, historyVars, validVars, depVars, viewVars, svcVars,
                   themeVars, sidebarVars, notifVars, runsVars, layoutVars>>

\* next handler of saveParameterSet
SaveNext(req) ==
    /\ req \in paramsOpen
    /\ req.op = "save"
    /\ paramsOpen' = paramsOpen \ {req}
    /\ isSaving' = FALSE
    /\ isSavingAsNew' = FALSE
    /\ showSaveAsModal' = FALSE
    /\ selectedParameterSet' = req.set
    /\ UNCHANGED <<parametersForm, isAutoSaving, debouncing, lastDistinct, failedSince>>
    /\ UNCHANGED <<engineVars, historyVars, validVars, depVars, viewVars, svcVars,
                   themeVars, sidebarVars, notifVars, runsVars, layoutVars>>

\* error handler of saveParameterSet
SaveError(req) ==
    /\ req \in paramsOpen
    /\ req.op = "save"
    /\ paramsOpen' = paramsOpen \ {req}
    /\ isSaving' = FALSE
    /\ isSavingAsNew' = FALSE
    /\ UNCHANGED <<selectedParameterSet, parametersForm, isAutoSaving, showSaveAsModal,
                   debouncing, lastDistinct, failedSince>>
    /\ UNCHANGED <<engineVars, historyVars, validVars, depVars, viewVars, svcVars,
                   themeVars, sidebarVars, notifVars, runsVars, layoutVars>>

ParamsRequests ==
    [op : {"default", "activate", "update", "save"},
     set : ParameterSets \cup NewNames,
     values : StoredValues \cup TypedValues \cup {""},
     tag : 1..MaxParamsOpen]

InitParams ==
    /\ EngineIdle
    /\ ValidIdle
    /\ LaterIdle

NextParams ==
    \/ \E ok \in BOOLEAN, values \in StoredValues : LoadDefaultParametersNext(ok, values)
    \/ \E values \in TypedValues : EditForm(values)
    \/ \E parameterSet \in ParameterSets : OnParameterSetChange(parameterSet)
    \/ \E req \in ParamsRequests, values \in StoredValues : ActivateNext(req, values)
    \/ \E req \in ParamsRequests : ActivateError(req)
    \/ DebounceFires
    \/ \E req \in ParamsRequests : UpdateAnswered(req)
    \/ OpenSaveAsModal
    \/ CloseSaveAsModal
    \/ \E name \in NewNames : ConfirmSaveAsNew(name)
    \/ \E req \in ParamsRequests : SaveNext(req)
    \/ \E req \in ParamsRequests : SaveError(req)

SpecParams == InitParams /\ [][NextParams]_vars

(***************************************************************************)
(* Properties of the polling engine                                        *)
(***************************************************************************)
TimedOut == phase = "done" /\ lastCalls = <<Error(TimeoutMsg(flow), FALSE)>>

\* C1: when every status check is answered PENDING or RUNNING or fails, the
\* upload sequence fails with the timeout error after exactly 240 status
\* requests (the download sequence after exactly 120), and request 241 (121)
\* is never issued.
C1_TimeoutAtCeiling ==
    LET ceiling == IF flow = "upload" THEN 240 ELSE 120
        answered == progressAnswers + failedChecks
    IN flow \in Flows =>
         /\ statusRequests <= ceiling
         /\ answered = ceiling => (phase = "waiting" \/ TimedOut)
         /\ TimedOut => (statusRequests = ceiling /\ answered = ceiling
                         /\ terminalCalls = 1)

C1_Witness ==
    /\ flow = "upload"
    /\ TimedOut
    /\ statusRequests = 240
    /\ progressAnswers > 0
    /\ failedChecks > 0

UploadStatusHandled ==
    /\ flow = "upload"
    /\ lastTask.status \in Statuses
    /\ statusRequests >= 1
    /\ phase # "polling"

\* C3: the outcome of an upload status check is decided by the task status:
\* COMPLETED emits {progress: 100, task, completed: true} and completes; FAILED
\* fails with an error carrying the task; CANCELLED fails with the cancellation
\* error; PENDING / RUNNING emits the task's percentage (0 when absent) and
\* schedules another poll; any other status, or none, fails with the
\* unknown-status error.
C3_OutcomeByStatus ==
    UploadStatusHandled =>
        LET st == lastTask.status
            pct == lastTask.progressPercentage
        IN CASE st = "COMPLETED" ->
                  /\ lastCalls = <<[op |-> "next", progress |-> 100, task |-> TRUE,
                                    completed |-> TRUE, blob |-> FALSE],
                                   [op |-> "complete"]>>
                  /\ phase = "done" /\ timer = 0
             [] st = "FAILED" ->
                  /\ Len(lastCalls) = 1
                  /\ lastCalls[1].op = "error"
                  /\ lastCalls[1].task = TRUE
                  /\ phase = "done" /\ timer = 0
             [] st = "CANCELLED" ->
                  /\ lastCalls = <<[op |-> "error", msg |-> <<"Upload was cancelled">>,
                                    task |-> FALSE]>>
                  /\ phase = "done" /\ timer = 0
             [] st \in {"PENDING", "RUNNING"} ->
                  /\ lastCalls = <<[op |-> "next",
                                    progress |-> IF pct = Absent THEN 0 ELSE pct,
                                    task |-> TRUE, completed |-> FALSE,
                                    blob |-> FALSE]>>
                  /\ phase = "waiting" /\ timer > 0
             [] OTHER ->
                  /\ lastCalls = <<[op |-> "error",
                                    msg |-> <<"Unknown task status: ", st>>,
                                    task |-> FALSE]>>
                  /\ phase = "done" /\ timer = 0

C3_Witness ==
    /\ UploadStatusHandled
    /\ lastTask.status = "RUNNING"
    /\ lastTask.progressPercentage = Absent
    /\ nextCalls = 3

\* C4: RUNNING (or PENDING) on the first k polls of an upload and COMPLETED on
\* poll k + 1, k < 240: exactly k progress events, then exactly one completion
\* event, exactly k + 1 status requests, and nothing pending after it.
C4_ProgressThenCompletion ==
    (UploadStatusHandled /\ lastTask.status = "COMPLETED" /\ failedChecks = 0) =>
        /\ nextCalls = progressAnswers + 1
        /\ lastCalls[1].op = "next" /\ lastCalls[1].completed
        /\ lastCalls[2].op = "complete"
        /\ terminalCalls = 1
        /\ statusRequests = progressAnswers + 1
        /\ phase = "done" /\ timer = 0

C4_Witness ==
    /\ UploadStatusHandled
    /\ lastTask.status = "COMPLETED"
    /\ failedChecks = 0
    /\ progressAnswers = 239

\* C5: a progress sequence has at most one terminal event (completion or
\* error); after it nothing is emitted, no poll is scheduled and no status
\* request is issued.
C5_OneTerminalEvent ==
    /\ [](terminalCalls <= 1)
    /\ [](terminalCalls = 1 => (phase = "done" /\ timer = 0))
    /\ [][terminalCalls >= 1 =>
            UNCHANGED <<nextCalls, terminalCalls, statusRequests, blobRequests,
                        timer>>]_vars

C5_Witness ==
    /\ flow = "download"
    /\ terminalCalls = 1
    /\ phase = "done"
    /\ blobRequests = 1
    /\ nextCalls > 1

\* the state right after the handler of the submission response has run
SubmitAnswered ==
    /\ flow \in Flows
    /\ lastTask.status \in Statuses
    /\ (phase = "polling" \/ statusRequests = 0)

\* C6 as stated: a submission answered with a terminal-failure task (FAILED,
\* CANCELLED) fails the sequence at once with the task's error message, and no
\* status request is issued.
C6_TerminalFailureAtSubmit ==
    (SubmitAnswered /\ lastTask.status \in {"FAILED", "CANCELLED"}) =>
        /\ phase = "done"
        /\ statusRequests = 0
        /\ Len(lastCalls) = 1
        /\ lastCalls[1].op = "error"
        /\ lastTask.errorMessage # NoMsg => lastCalls[1].msg = lastTask.errorMessage

\* C6 amended: a submission answered with a FAILED task fails the sequence at
\* once, without any status request, with the task's error message or, when
\* the task has none, 'Upload failed' / 'Download failed'; a task with any
\* other status, CANCELLED included, is polled.
C6_FailedAtSubmit ==
    SubmitAnswered =>
        IF lastTask.status = "FAILED"
        THEN /\ phase = "done"
             /\ statusRequests = 0
             /\ terminalCalls = 1
             /\ lastCalls =
                  <<[op |-> "error",
                     msg |-> IF lastTask.errorMessage # NoMsg
                             THEN lastTask.errorMessage
                             ELSE IF flow = "upload" THEN <<"Upload failed">>
                                  ELSE <<"Download failed">>,
                     task |-> FALSE]>>
        ELSE /\ phase = "polling"
             /\ statusRequests = 1
             /\ terminalCalls = 0

C6_Witness ==
    /\ SubmitAnswered
    /\ lastTask.status = "FAILED"
    /\ lastTask.errorMessage # NoMsg
    /\ phase = "done"
    /\ flow = "download"

\* C7: once the subscriber has unsubscribed, no further status request is
\* issued for the task.
C7_NoRequestAfterUnsubscribe ==
    [][unsubscribed => statusRequests' = statusRequests]_vars

\* C8: an upload submitted with an absent file fails at once with an error,
\* sends no request (async and sync) and is never polled.
C8_AbsentFileFailsLocally ==
    (flow \in {"upload", "sync"} /\ ~hasFile) =>
        /\ phase = "done"
        /\ lastCalls = <<[op |-> "error", msg |-> <<"No file provided for upload">>,
                          task |-> FALSE]>>
        /\ terminalCalls = 1
        /\ nextCalls = 0
        /\ uploadRequests = 0
        /\ syncRequests = 0
        /\ statusRequests = 0
        /\ inflight = NoFile

C8_Witness ==
    /\ flow = "sync"
    /\ ~hasFile
    /\ phase = "done"
    /\ terminalCalls = 1

\* C9: no upload request is sent for a file whose extension is outside the
\* allow-list or whose size exceeds the ceiling.
C9_NoRequestForInvalidFile ==
    (flow \in {"upload", "sync"} /\ phase = "submitting") =>
        /\ isValidFileType(inflight)
        /\ isValidFileSize(inflight, Absent)

(***************************************************************************)
(* Properties of the validation helpers                                    *)
(***************************************************************************)
\* C10: isValidFileSize(file, maxSizeMB) is true exactly when file.size <=
\* maxSizeMB * 1024 * 1024 (default 50), and isValidFileType(file) exactly when
\* the lower-cased part of the name from its last '.' onward is '.tsv' or '.txt'.
C10_ValidationExact ==
    /\ vSize # <<>> =>
         vSize[1] = (vFile.size <= (IF vMaxSizeMB = Absent THEN 50 ELSE vMaxSizeMB)
                                    * 1024 * 1024)
    /\ vType # <<>> =>
         LET dots == {i \in DOMAIN vFile.name : vFile.name[i] = "."}
             last == CHOOSE i \in dots : \A j \in dots : j <= i
             ext == toLowerCase(SubSeq(vFile.name, last, Len(vFile.name)))
         IN vType[1] = (dots # {} /\ ext \in {<<".", "t", "s", "v">>,
                                              <<".", "t", "x", "t">>})

(***************************************************************************)
(* Properties of the dependency check                                      *)
(***************************************************************************)
\* the snapshot holds the key with exists = true
HasData(snapshot, k) == k \in DOMAIN snapshot /\ snapshot[k].exists = TRUE

\* C11: checkUploadDependencies('sales', snapshot) is enabled with an empty
\* message exactly when styles, skus and stores all have exists = true;
\* otherwise it is disabled and its message is 'Upload ', the missing
\* prerequisites (and no present one) in the order styles, skus, stores
\* separated by ', ', then ' first'.
C11_SalesNeedsAll ==
    (dFileType = "sales" /\ dResult # <<>>) =>
        LET r == dResult[1]
            missing == SelectSeq(<<"styles", "skus", "stores">>,
                                 LAMBDA k : ~HasData(dStatusData, k))
            n == Len(missing)
        IN /\ r.enabled <=> (n = 0)
           /\ r.enabled => r.message = <<>>
           /\ ~r.enabled =>
                /\ Len(r.message) = 2 * n + 1
                /\ r.message[1] = "Upload "
                /\ r.message[2 * n + 1] = " first"
                /\ \A i \in 1..n : r.message[2 * i] = missing[i]
                /\ \A i \in 1..(n - 1) : r.message[2 * i + 1] = ", "

C11_Witness ==
    /\ dFileType = "sales"
    /\ dResult # <<>>
    /\ dStatusData = <<>>
    /\ dResult[1].message =
         <<"Upload ", "styles", ", ", "skus", ", ", "stores", " first">>

\* C12: checkUploadDependencies returns a result for every file type and every
\* snapshot (the empty one and ones with missing keys included), leaves the
\* snapshot as it was, always enables styles and stores, and enables skus
\* exactly when styles has exists = true, otherwise disabling it with the
\* upload-order message.
C12_TotalAndPure ==
    /\ dResult = <<>> => ENABLED CallCheckUploadDependencies
    /\ dResult # <<>> =>
         LET r == dResult[1]
         IN /\ dStatusData = dStatusBefore
            /\ r.enabled \in BOOLEAN
            /\ r.enabled <=> (r.message = <<>>)
            /\ dFileType \in {"styles", "stores"} => r.enabled
            /\ dFileType = "skus" =>
                 /\ r.enabled <=> HasData(dStatusData, "styles")
                 /\ ~r.enabled =>
                      r.message =
                        <<"Upload styles first (styles -> skus -> sales)">>

C12_Witness ==
    /\ dFileType = "skus"
    /\ dResult # <<>>
    /\ ~dResult[1].enabled
    /\ "styles" \in DOMAIN dStatusData
    /\ ~dStatusData["styles"].exists
    /\ "sales" \notin DOMAIN dStatusData

(***************************************************************************)
(* Properties of the upload view                                           *)
(***************************************************************************)
\* the file types that must hold data before the given one is uploaded
Prerequisites(fileType) ==
    CASE fileType = "skus" -> {"styles"}
      [] fileType = "sales" -> {"styles", "skus", "stores"}
      [] OTHER -> {}

\* C13: once a status snapshot has been received, a file type has status
\* 'blocked' if and only if at least one of its prerequisite file types does
\* not have exists = true in the snapshot received last, whatever refreshes,
\* upload events and clear-all have happened.
C13_BlockedIffMissing ==
    lastSnapshot # <<>> =>
        \A id \in FileTypes :
            (uploadFiles[id].status = "blocked")
            <=> (\E k \in Prerequisites(id) : ~HasData(lastSnapshot[1], k))

\* C14: no file type ever has two upload sequences alive at once.
C14_OneUploadPerType ==
    \A id \in FileTypes : activeUploads[id] <= 1

\* C15: skus is submitted only when the snapshot received last has
\* styles.exists = true, and sales only when it has styles, skus and stores
\* existing; nothing with prerequisites is submitted before the first snapshot.
C15_SubmitInOrder ==
    (submitted # "" /\ Prerequisites(submitted) # {}) =>
        /\ lastSnapshot # <<>>
        /\ \A k \in Prerequisites(submitted) : HasData(lastSnapshot[1], k)

(***************************************************************************)
(* Properties of the data services                                         *)
(***************************************************************************)
\* the read-path calls: status, tasks, task stats, dashboard metrics, NOOS
\* results and their download, reports, parameter sets, notifications
ReadPathCalls ==
    {c \in ServiceCalls :
        /\ c.method = "GET"
        /\ c.name \notin {"UploadService.downloadErrorFile",
                          "UploadService.downloadValidationReport",
                          "UploadService.downloadErrorReport",
                          "UploadService.downloadSkippedRecords",
                          "UploadService.getErrorReport"}}

\* the mutation calls: save, update, create, activate, delete, run, cancel
MutationCalls ==
    {c \in ServiceCalls :
        /\ c.method \in {"POST", "PUT", "DELETE"}
        /\ c \notin NotificationServiceCalls}

\* C16: a read-path call whose request fails, whatever the error body, gives
\* its subscriber the static fallback value and never an error.
C16_ReadYieldsFallback ==
    (svcCall \in ReadPathCalls /\ svcBody # "") =>
        (svcOutcome = "fallback" /\ svcOutcome # "error")

\* C17: a mutation call whose request fails gives its subscriber the error
\* and no success value.
C17_MutationPropagates ==
    (svcCall \in MutationCalls /\ svcBody # "") => svcOutcome = "error"

(***************************************************************************)
(* Properties of the theme and sidebar stores                              *)
(***************************************************************************)
\* C18: the published isDark equals systemPrefersDark when the mode is
\* 'system' and (mode = 'dark') otherwise, and the applied data-theme follows
\* it; a change of the OS dark-mode preference changes isDark and data-theme,
\* with no setTheme call, when the mode is 'system', and changes neither when
\* the mode is 'light' or 'dark'.
C18_IsDarkFollowsMode ==
    /\ [](/\ themeState.mode = themeMode
          /\ themeState.isDark = (IF themeMode = "system" THEN systemPrefersDark
                                  ELSE themeMode = "dark")
          /\ dataTheme = (IF themeState.isDark THEN "dark" ELSE "light"))
    /\ [][(systemPrefersDark' # systemPrefersDark /\ ~themeFresh') =>
             /\ themeMode' = themeMode
             /\ lastSet' = lastSet
             /\ IF themeMode = "system"
                THEN /\ themeState'.isDark # themeState.isDark
                     /\ dataTheme' # dataTheme
                ELSE /\ themeState'.isDark = themeState.isDark
                     /\ dataTheme' = dataTheme]_vars

C18_Witness ==
    /\ themeMode = "system"
    /\ ~themeFresh
    /\ lastSet = <<>>
    /\ themeStorage = <<>>
    /\ systemPrefersDark
    /\ themeState.isDark
    /\ dataTheme = "dark"

\* the stored item is absent or not one of light, dark, system
NoValidTheme == themeStorage = <<>> \/ themeStorage[1] \notin {"light", "dark", "system"}

Denotes(stored) == stored = <<"true">>

\* C20: after a setCollapsed or toggle call the item stored under
\* 'sidebarCollapsed' stands for the in-memory value; a new store starts with
\* the stored value, false when nothing is stored; two consecutive toggles
\* bring the in-memory and the stored value back.
C20_SidebarPersisted ==
    /\ sidebarLast \in {"set", "toggle", "toggle2"} =>
         Denotes(sidebarStorage) = collapsed
    /\ sidebarLast = "construct" => collapsed = Denotes(sidebarStorage)
    /\ sidebarLast = "toggle2" =>
         /\ collapsed = sidebarMark[1]
         /\ Denotes(sidebarStorage) = Denotes(sidebarMark[2])

(***************************************************************************)
(* Properties of the notification store                                    *)
(***************************************************************************)
\* C21: when a loadNotifications / refreshNotifications response is applied,
\* every locally added notification that was in the list (not removed, not
\* expired) is still in the list afterwards.
C21_LoadKeepsLocal ==
    notifLast.op = "load" =>
        \A i \in DOMAIN notifLast.before :
            notifLast.before[i].id[1] = "notification"
                => notifLast.before[i].id \in NotifIds

\* C22: markAsRead(id) and markAllAsRead() each issue their server call and
\* leave the list alone until it is answered; once the server has accepted
\* it (2xx, and success: true for read-all), the notification with that id
\* (single) or every notification (all) has isRead = true, and the list is
\* otherwise what it was: same length, same order, same other fields.
C22_MarkAsReadUpdates ==
    /\ notifLast.op = "markAsRead" =>
            /\ [op |-> "read", id |-> notifLast.id] \in notifOpen
            /\ notifications = notifLast.before
    /\ notifLast.op = "markAllAsRead" =>
            /\ [op |-> "readAll", id |-> <<>>] \in notifOpen
            /\ notifications = notifLast.before
    /\ notifLast.op \in {"read", "readAll"} /\ notifLast.ok = "ok" =>
            /\ Len(notifications) = Len(notifLast.before)
            /\ \A i \in DOMAIN notifications :
                /\ notifications[i].id = notifLast.before[i].id
                /\ notifications[i].timed = notifLast.before[i].timed
                /\ notifications[i].isRead =
                        (\/ notifLast.before[i].isRead
                         \/ notifLast.op = "readAll"
                         \/ notifLast.before[i].id = notifLast.id)

\* an accepted markAsRead applied to a list of two unread notifications
C22_Witness ==
    /\ notifLast.op = "read"
    /\ notifLast.ok = "ok"
    /\ Len(notifLast.before) = 2
    /\ \A i \in DOMAIN notifLast.before : ~notifLast.before[i].isRead
    /\ \E i \in DOMAIN notifications : notifications[i].isRead

\* C30: when the server call of markAsRead(id) or markAllAsRead() fails, the
\* local notification list is left unchanged.
C30_FailedMarkLeavesList ==
    notifLast.op \in {"read", "readAll"} /\ notifLast.ok = "error"
        => notifications = notifLast.before

(***************************************************************************)
(* Further properties of the polling engine                                *)
(***************************************************************************)
BlobEvent == NextEvent(100, FALSE, FALSE, TRUE)

\* C23: in the download sequence a status check answered COMPLETED requests
\* the result blob, once, and emits nothing; the 100% event carrying the
\* blob (and with it the filename) is emitted, followed by completion, only
\* by the step that receives the blob; a failed blob request fails the
\* sequence with that error and emits no 100% event.
C23_BlobThenCompletion ==
    /\ [](/\ blobRequests <= 1
          /\ phase = "blob" => flow = "download" /\ blobRequests = 1
          /\ (\E i \in DOMAIN lastCalls : lastCalls[i] = BlobEvent) =>
                /\ phase = "done"
                /\ blobRequests = 1
                /\ lastCalls = <<BlobEvent, Complete>>)
    /\ [][/\ (phase = "polling" /\ phase' # "polling" /\ flow = "download"
                /\ lastTask'.status = "COMPLETED") =>
                    /\ phase' = "blob"
                    /\ blobRequests' = blobRequests + 1
                    /\ lastCalls' = <<>>
                    /\ nextCalls' = nextCalls
                    /\ terminalCalls' = terminalCalls
          /\ blobRequests' # blobRequests =>
                phase = "polling" /\ phase' # "polling" /\ flow = "download"
                    /\ lastTask'.status = "COMPLETED"
          /\ (phase = "blob" /\ phase' # "blob") =>
                /\ phase' = "done"
                /\ blobRequests' = blobRequests
                /\ \/ /\ lastCalls' = <<BlobEvent, Complete>>
                      /\ nextCalls' = nextCalls + 1
                   \/ /\ lastCalls' = <<Error(HttpErrorMsg, FALSE)>>
                      /\ nextCalls' = nextCalls
                /\ terminalCalls' = terminalCalls + 1]_vars

\* a download that reported progress, then COMPLETED, and received its blob
C23_Witness ==
    /\ flow = "download"
    /\ phase = "done"
    /\ progressAnswers > 0
    /\ blobRequests = 1
    /\ lastCalls = <<BlobEvent, Complete>>

(***************************************************************************)
(* Further properties of the upload view                                   *)
(***************************************************************************)
\* the snapshot reports the file type as neither processing, failed nor
\* existing, or has no entry for it
ReportsNothing(snapshot, id) ==
    id \in DOMAIN snapshot =>
        /\ ~snapshot[id].processing
        /\ ~snapshot[id].failed
        /\ ~snapshot[id].exists

\* C24: a status refresh never turns 'error' into 'pending': a file that was
\* in 'error' when the refresh began and about which the snapshot reports
\* nothing is in 'error' afterwards, or in 'blocked' when its dependency
\* check is disabled; and the step in which an upload fails issues no status
\* request.
C24_ErrorSurvivesRefresh ==
    /\ [](\A id \in errorBefore :
            ReportsNothing(lastSnapshot[1], id) =>
                uploadFiles[id].status =
                    IF checkUploadDependencies(id, lastSnapshot[1]).enabled
                    THEN "error" ELSE "blocked")
    /\ [][\A id \in FileTypes :
            (activeUploads'[id] < activeUploads[id]
                /\ uploadFiles'[id].status = "error")
            => statusOpen' = statusOpen]_vars

\* a refresh that reported nothing about styles, which was in 'error' and
\* stays so, while sales, also in 'error', becomes 'blocked'
C24_Witness ==
    /\ errorBefore = {"styles", "sales"}
    /\ ReportsNothing(lastSnapshot[1], "styles")
    /\ ReportsNothing(lastSnapshot[1], "sales")
    /\ uploadFiles["styles"].status = "error"
    /\ uploadFiles["sales"].status = "blocked"

(***************************************************************************)
(* Properties of the NOOS analytics view                                   *)
(***************************************************************************)
Listed(list) == {list[i] : i \in DOMAIN list}

\* C25: each successful deletion removes from the local list exactly the run
\* that was deleted on the server, whatever other deletions and reloads were
\* in flight: the runs listed afterwards are those listed before without the
\* deleted one.
C25_DeletesTheRunDeleted ==
    runsLast.op = "deleted" =>
        Listed(reportData) = Listed(runsLast.before) \ {runsLast.id}

(***************************************************************************)
(* Properties of the layout                                                *)
(***************************************************************************)
\* C26: whenever the window has desktop width, the layout's sidebarCollapsed
\* flag equals the value held by the sidebar state store, after any sequence
\* of toggleSidebar, closeSidebar and resize events.
C26_LayoutFollowsStore ==
    width = "desktop" => sidebarCollapsed = collapsed

(***************************************************************************)
(* Properties of the algorithm parameters view                             *)
(***************************************************************************)
\* C27: once activating a parameter set has failed, and until the user edits
\* the form, no update request is issued for that set: the reset of the form
\* to the default values is not auto-saved into the set that failed to load.
C27_NoSaveAfterFailedLoad ==
    [][\A req \in paramsOpen' \ paramsOpen :
          req.op = "update" => req.set \notin failedSince]_vars

InFlight(ops) == \E req \in paramsOpen : req.op \in ops

\* C28: an auto-save update request is never started while an update or a
\* save-as-new request is in flight, and a flag is set only while its request
\* is in flight, both outcomes of the request clearing it.
C28_AutoSaveAlone ==
    /\ [](/\ isAutoSaving => InFlight({"update"})
          /\ isSavingAsNew => InFlight({"save"})
          /\ isSaving => InFlight({"save"}))
    /\ [][(\E req \in paramsOpen' \ paramsOpen : req.op = "update")
            => ~InFlight({"update", "save"})]_vars

(***************************************************************************)
(* Termination of the polling engine                                       *)
(***************************************************************************)
Subscribed == flow \in Flows /\ phase \in {"submitting", "polling", "waiting", "blob"}

Terminated ==
    /\ phase = "done"
    /\ Len(lastCalls) > 0
    /\ lastCalls[Len(lastCalls)].op \in {"complete", "error"}

\* C29: when every request is answered and every timer fires, a subscribed
\* upload or download sequence ends with a completion or an error call,
\* whatever statuses and failures the server answers with.
C29_SequenceTerminates == Subscribed ~> Terminated

\* a sequence that had every status check fail and ended by the poll ceiling
C29_Witness ==
    /\ flow = "download"
    /\ Terminated
    /\ ~unsubscribed
    /\ pollCount = downloadMaxPolls
    /\ failedChecks = downloadMaxPolls

====
